---- MODULE Spec2Model ----
(***************************************************************************)
(* Generation-repair loop of the LLM-driven Java test generator.           *)
(*                                                                         *)
(* Two drivers of the loop exist in the repository:                        *)
(*   - ImprovedTestGenerator (improved_test_generator.py): one attempt     *)
(*     bound max_fix_attempts and a fix strategy; specification Spec.      *)
(*   - SmartFixLoop (utils/smart_fix_loop.py): separate bounds             *)
(*     max_compile_fixes / max_runtime_fixes and a FixAttempt log;         *)
(*     specification SmartSpec.                                            *)
(* The language model, the compiler and the test runner are collaborators: *)
(* every call draws its outcome from a small set.                          *)
(***************************************************************************)
EXTENDS Integers, Sequences, FiniteSets, TLC

\* ---------------------------------------------------------------- bounds
\* largest max_fix_attempts / max_compile_fixes / max_runtime_fixes drawn
MaxAttemptsBound == 3
\* number of distinct non-empty candidate sources a model answer can be
MaxCode == 2
\* ghost counters saturate here (never reached by the unmodified loop)
CounterCap == 2 * MaxAttemptsBound + 1

\* ---------------------------------------------------------------- values
\* Python None
NoneVal == -1
\* the empty string left by the sanitizer
EmptyStr == 0
Codes == 1..MaxCode

Strategies == {"compile-only", "runtime-only", "both", "other"}
ContextModes == {"rag", "context-aware"}

\* outcome of one OllamaClient.call_unstructured followed by the sanitizer:
\* the backend raises, answers something falsy / not a string, or answers
\* text that sanitizes to code (0 = sanitizes to the empty string)
LLMOutcomes ==
  {[kind |-> "raise", code |-> EmptyStr], [kind |-> "invalid", code |-> EmptyStr]}
    \cup {[kind |-> "text", code |-> c] : c \in {EmptyStr} \cup Codes}

\* outcome of the build tool behind compile_test
CompileOutcomes == {"ok_file", "ok_nofile", "fail", "raise"}
\* outcome of the test execution behind execute_runtime_command
RunOutcomes == {"pass", "fail", "raise"}

Bump(n) == IF n < CounterCap THEN n + 1 ELSE n

VARIABLES
  pc,            \* position of the session in the driver's code
  cfg,           \* arguments of the generate-test request
  context_info,  \* number of context items handed to the prompts
  actual_mode_used,
  current_code,  \* candidate held by the loop (_compile_and_fix_loop_with_progress)
  attempt,       \* attempts used so far (same function)
  ph,            \* frame of the running _compile_fix_phase / _runtime_fix_phase
  phase_result,  \* dict returned by the phase that just ended
  result,        \* dict returned by generate_test_for_method
  raised,        \* an exception left the entry point
  stats,         \* self.stats
  session_saved, \* _save_complete_session ran for this request
  fix_history,   \* SmartFixLoop.fix_history
  conv_active,   \* ConversationLogger.current_conversation is set
  calls,         \* ghost: collaborator calls made in this session
  obs            \* ghost: observations the properties are stated on

vars == <<pc, cfg, context_info, actual_mode_used, current_code, attempt, ph,
          phase_result, result, raised, stats, session_saved, fix_history,
          conv_active, calls, obs>>

\* ------------------------------------------------------------ dict shapes
NoFrame == [kind |-> "none", current_code |-> NoneVal, attempt |-> 0,
            max_attempts |-> 0, error |-> 0, run_error |-> 0,
            class_file |-> FALSE]

\* a result dict: the keys it has, and the values the properties look at
\* (code = NoneVal, last_error = 0, attempts = -1 when the key is absent)
NoDict == [keys |-> {}, success |-> FALSE, error |-> "", code |-> NoneVal,
           attempts |-> -1, last_error |-> 0, fix_history |-> <<>>]

Stats0 == [analyzed_methods |-> 0, generated_tests |-> 0,
           failed_generations |-> 0, compilation_successes |-> 0,
           compilation_failures |-> 0, runtime_successes |-> 0,
           runtime_failures |-> 0, context_retrievals |-> 0,
           fix_attempts |-> 0]

Calls0 == [gen |-> 0, compile |-> 0, run |-> 0,
           cfix |-> 0,   \* compile-fix requests
           rfix |-> 0]   \* runtime-fix requests

Obs0 == [fresh |-> FALSE,          \* last compile check passed on the current candidate
         ranStale |-> FALSE,       \* the runner was started without that
         ranAfterFail |-> FALSE,   \* the runner was started after a failed check, unfixed
         lastCall |-> "none",      \* last collaborator call and its outcome
         lastCode |-> NoneVal,     \* candidate of that call
         lastDiag |-> 0,           \* diagnostic of the last failed compile
         failedFix |-> "none",     \* phase in which a fix request came back empty
         callAfterFailedFix |-> FALSE,
         genFailed |-> FALSE,
         compiledEmpty |-> FALSE,  \* the compiler was given None or ""
         phases |-> <<>>,          \* phases entered, in order
         precheck |-> "none",      \* runtime-only compile check: none / ok / fail
         sawRaise |-> FALSE,       \* a collaborator (or a file write) raised
         exhausted |-> "none",     \* compile phase that ran into its bound
         candidate |-> NoneVal]    \* latest non-empty candidate of the session

\* ------------------------------------------------------------ collaborators
\* compile_test: every exception is caught and reported as a failure
compile_test(outcome) ==
  [success |-> outcome \in {"ok_file", "ok_nofile"},
   class_file |-> outcome = "ok_file"]

\* variant: `is None` in place of truthiness
Falsy_NoneOnly(code) == code = NoneVal

\* Python truthiness of the value handed back by a generation / fix helper
Falsy(code) == code = NoneVal \/ code = EmptyStr

\* _generate_initial_test_with_debug, _fix_compilation_error_with_debug,
\* _fix_runtime_error_with_debug: None unless the answer is a non-empty
\* string; then the sanitized text (which may be empty)
HelperReturn(o) == IF o.kind = "text" THEN o.code ELSE NoneVal


\* ------------------------------------------------------------ bookkeeping
\* a collaborator call made after a fix request came back empty
NoteCall(o) == [o EXCEPT !.callAfterFailedFix = @ \/ (o.failedFix /= "none")]

NoteCompile(o, code, r, diag) ==
  [NoteCall(o) EXCEPT !.fresh = r.success,
                      !.lastCall = IF r.success THEN "compile_ok" ELSE "compile_fail",
                      !.lastCode = code,
                      !.lastDiag = IF r.success THEN @ ELSE diag,
                      !.compiledEmpty = @ \/ (code \notin Codes)]

NoteRun(o, code, passed) ==
  [NoteCall(o) EXCEPT !.ranStale = @ \/ ~o.fresh \/ o.lastCall /= "compile_ok"
                                      \/ o.lastCode /= code,
                      !.ranAfterFail = @ \/ (o.lastCall = "compile_fail"),
                      !.lastCall = IF passed THEN "run_ok" ELSE "run_fail",
                      !.lastCode = code]

NoteFix(o, fixed, where) ==
  [NoteCall(o) EXCEPT !.fresh = IF fixed \in Codes THEN FALSE ELSE @,
                      !.lastCall = IF fixed \in Codes THEN "fix_ok" ELSE "fix_empty",
                      !.lastCode = fixed,
                      !.candidate = IF fixed \in Codes THEN fixed ELSE @,
                      !.failedFix = IF fixed \notin Codes /\ @ = "none" THEN where ELSE @]

\* a collaborator call ended in an exception
Saw(o, b) == [o EXCEPT !.sawRaise = @ \/ b]

\* ------------------------------------------------------------ result dicts
\* _create_error_result
ErrorResult(error) ==
  [NoDict EXCEPT !.keys = {"success", "method_signature", "error",
                           "rag_enabled", "total_duration"},
                 !.error = error]

\* dict.get(key, default) on the "code" key
GetCode(d, default) == IF "code" \in d.keys THEN d.code ELSE default
\* dict.get('attempts', 0)
GetAttempts(d) == IF "attempts" \in d.keys THEN d.attempts ELSE 0

\* _compile_fix_phase, success return
CompileSuccessDict(f) ==
  [NoDict EXCEPT !.keys = {"success", "code", "attempts", "class_file"},
                 !.success = TRUE, !.code = f.current_code,
                 !.attempts = f.attempt]

\* _compile_fix_phase, return after the loop (bound reached or break)
CompileFailDict(f) ==
  [NoDict EXCEPT !.keys = {"success", "error", "attempts", "last_error"},
                 !.error = "compile_exhausted", !.attempts = f.attempt,
                 !.last_error = f.error]

\* _runtime_fix_phase, success return
RuntimeSuccessDict(f) ==
  [NoDict EXCEPT !.keys = {"success", "code", "attempts", "class_file"},
                 !.success = TRUE, !.code = f.current_code,
                 !.attempts = f.attempt]

\* _runtime_fix_phase, compile check failed and its fix request came back empty
PreRunFailDict(f) ==
  [NoDict EXCEPT !.keys = {"success", "error", "attempts"},
                 !.error = "prerun_compile_unfixable", !.attempts = f.attempt]

\* _runtime_fix_phase, return after the loop (bound reached or break)
RuntimeFailDict(f) ==
  [NoDict EXCEPT !.keys = {"success", "error", "attempts", "last_error"},
                 !.error = "runtime_exhausted", !.attempts = f.attempt,
                 !.last_error = f.run_error]

\* ------------------------------------------------------------ control
\* variant: `<=` in place of `<`
LoopContinues_inclusive(a, max) == a <= max

\* `while attempt < max_attempts`
LoopContinues(a, max) == a < max

\* variant: the attempt is not counted
NextAttempt_stuck(a) == a

\* `attempt += 1`
NextAttempt(a) == a + 1

\* `if fix_strategy in ["compile-only", "both"]`
EntersCompilePhase(s) == s \in {"compile-only", "both"}

\* variant: stage 2 not conditioned on the strategy
EntersRuntimePhase_any(s) == s \in {"compile-only", "runtime-only", "both"}

\* `if fix_strategy in ["runtime-only", "both"]`
EntersRuntimePhase(s) == s \in {"runtime-only", "both"}

\* `max_attempts - attempt`, the bound handed to _runtime_fix_phase
RuntimeBudget(max, used) == max - used

\* variant: the try block ends before step 5
TryCovers_loopOnly(step) == step \in {"analyze", "context", "generate", "loop"}

\* the try block of generate_test_for_method spans steps 1 to 5
TryCovers(step) == step \in {"analyze", "context", "generate", "loop", "save"}

\* variant: run the fixed code at once
AfterRuntimeFix_run == "rphase_run"

\* _runtime_fix_phase after a runtime fix: back to the loop head, which
\* compiles before it runs
AfterRuntimeFix == "rphase_head"

\* variant: `continue` in place of `return`
AfterFailedInlineFix_continue == "rphase_head"

\* _runtime_fix_phase when the inline compile-fix request comes back
\* empty: `return`, not `continue`
AfterFailedInlineFix == "rphase_ret"

CompileFrame(kind, code, max) ==
  [NoFrame EXCEPT !.kind = kind, !.current_code = code, !.max_attempts = max]

RuntimeFrame(code, max) ==
  [NoFrame EXCEPT !.kind = "runtime", !.current_code = code, !.max_attempts = max]

\* where _compile_fix_phase returns to
ReturnPc(kind) == IF kind = "prepass" THEN "prepass_ret" ELSE "cphase_ret"


\* ====================================================================
\* ImprovedTestGenerator.generate_test_for_method
\* ====================================================================
MaxCtx == 1

Requests ==
  [fix_strategy : Strategies, max_fix_attempts : 0..MaxAttemptsBound,
   use_rag : BOOLEAN, context_mode : ContextModes,
   max_compile_fixes : {0}, max_runtime_fixes : {0}, driver : {"improved"}]

Init ==
  /\ pc = "analyze"
  /\ cfg \in Requests
  /\ context_info = 0
  /\ actual_mode_used = cfg.context_mode
  /\ current_code = NoneVal
  /\ attempt = 0
  /\ ph = NoFrame
  /\ phase_result = NoDict
  /\ result = NoDict
  /\ raised = FALSE
  /\ stats = Stats0
  /\ session_saved = FALSE
  /\ fix_history = <<>>
  /\ conv_active = FALSE
  /\ calls = Calls0
  /\ obs = Obs0

\* step 1: _analyze_target_method_with_body; None (class file not found, or
\* any exception, caught inside) ends the request
Analyze ==
  /\ pc = "analyze"
  /\ \E o \in {"found", "notfound", "raise"} :
       /\ IF o = "found"
         THEN /\ pc' = "context"
              /\ UNCHANGED result
         ELSE /\ pc' = "done"
              /\ result' = ErrorResult("analysis_failed")
       /\ obs' = Saw(obs, o = "raise")
  /\ UNCHANGED <<cfg, context_info, actual_mode_used, current_code, attempt, ph,
                 phase_result, raised, stats, session_saved, fix_history,
                 conv_active, calls>>

\* step 2: context-aware context with fallback to RAG, RAG, or none; both
\* getters catch every exception and return [] (0 items)
GetContext ==
  /\ pc = "context"
  /\ \E ca \in 0..MaxCtx, rag \in 0..MaxCtx :
       IF cfg.context_mode = "context-aware"
         THEN IF ca > 0
                THEN /\ context_info' = ca
                     /\ actual_mode_used' = cfg.context_mode
                     /\ stats' = [stats EXCEPT !.context_retrievals = @ + 1]
                ELSE /\ actual_mode_used' = "rag"
                     /\ IF cfg.use_rag
                          THEN /\ context_info' = rag
                               /\ stats' = [stats EXCEPT !.context_retrievals = @ + 1]
                          ELSE /\ context_info' = 0
                               /\ UNCHANGED stats
         ELSE IF cfg.use_rag
                THEN /\ context_info' = rag
                     /\ actual_mode_used' = cfg.context_mode
                     /\ stats' = [stats EXCEPT !.context_retrievals = @ + 1]
                ELSE /\ context_info' = 0
                     /\ actual_mode_used' = cfg.context_mode
                     /\ UNCHANGED stats
  /\ pc' = "generate"
  /\ UNCHANGED <<cfg, current_code, attempt, ph, phase_result, result, raised,
                 session_saved, fix_history, conv_active, calls, obs>>

\* step 3: one generation request; a falsy answer ends the request
Generate ==
  /\ pc = "generate"
  /\ \E o \in LLMOutcomes :
       LET initial_test == HelperReturn(o) IN
       /\ calls' = [calls EXCEPT !.gen = Bump(@)]
       /\ IF Falsy(initial_test)
            THEN /\ pc' = "done"
                 /\ result' = ErrorResult("generation_failed")
                 /\ obs' = [Saw(obs, o.kind = "raise") EXCEPT
                              !.genFailed = TRUE, !.lastCall = "gen_empty",
                              !.lastCode = initial_test]
                 /\ UNCHANGED current_code
            ELSE /\ pc' = "loop_entry"
                 /\ current_code' = initial_test
                 /\ obs' = [obs EXCEPT !.lastCall = "gen_ok", !.lastCode = initial_test,
                                       !.candidate = initial_test,
                                       !.genFailed = initial_test \notin Codes]
                 /\ UNCHANGED result
  /\ UNCHANGED <<cfg, context_info, actual_mode_used, attempt, ph, phase_result,
                 raised, stats, session_saved, fix_history, conv_active>>

\* step 4, _compile_and_fix_loop_with_progress: entry and dispatch on the strategy
EnterLoop ==
  /\ pc = "loop_entry"
  /\ attempt' = 0
  /\ IF EntersCompilePhase(cfg.fix_strategy)
       THEN /\ ph' = CompileFrame("compile", current_code, cfg.max_fix_attempts)
            /\ pc' = "cphase_head"
            /\ obs' = [obs EXCEPT !.phases = Append(@, "compile")]
       ELSE /\ pc' = "stage2"
            /\ UNCHANGED <<ph, obs>>
  /\ UNCHANGED <<cfg, context_info, actual_mode_used, current_code, phase_result,
                 result, raised, stats, session_saved, fix_history, conv_active,
                 calls>>


\* ---------------------------------------------------------------------
\* _compile_fix_phase (also run as the runtime-only pre-pass)
\* ---------------------------------------------------------------------
\* one loop iteration up to the fix request: count the attempt, compile
CompilePhaseCompile ==
  /\ pc = "cphase_head"
  /\ LoopContinues(ph.attempt, ph.max_attempts)
  /\ \E o \in CompileOutcomes :
       LET r == compile_test(o)
           f == [ph EXCEPT !.attempt = NextAttempt(@)]
           n == Bump(calls.compile)
       IN
       /\ calls' = [calls EXCEPT !.compile = n]
       /\ obs' = Saw(NoteCompile(obs, ph.current_code, r, n), o = "raise")
       /\ IF r.success
            THEN /\ phase_result' = CompileSuccessDict(f)
                 /\ ph' = f
                 /\ pc' = ReturnPc(ph.kind)
                 /\ UNCHANGED stats
            ELSE /\ ph' = [f EXCEPT !.error = n]
                 /\ stats' = [stats EXCEPT !.fix_attempts = Bump(@)]
                 /\ pc' = "cphase_fix"
                 /\ UNCHANGED phase_result
  /\ UNCHANGED <<cfg, context_info, actual_mode_used, current_code, attempt,
                 result, raised, session_saved, fix_history, conv_active>>

\* the fix request of the iteration; a falsy answer breaks out of the loop
CompilePhaseFix ==
  /\ pc = "cphase_fix"
  /\ \E o \in LLMOutcomes :
       LET fixed_code == HelperReturn(o) IN
       /\ calls' = [calls EXCEPT !.cfix = Bump(@)]
       /\ obs' = Saw(NoteFix(obs, fixed_code, ph.kind), o.kind = "raise")
       /\ IF Falsy(fixed_code)
            THEN /\ phase_result' = CompileFailDict(ph)
                 /\ pc' = ReturnPc(ph.kind)
                 /\ UNCHANGED ph
            ELSE /\ ph' = [ph EXCEPT !.current_code = fixed_code]
                 /\ pc' = "cphase_head"
                 /\ UNCHANGED phase_result
  /\ UNCHANGED <<cfg, context_info, actual_mode_used, current_code, attempt,
                 result, raised, stats, session_saved, fix_history, conv_active>>

\* the loop condition fails: the failure dict after the loop
CompilePhaseExhausted ==
  /\ pc = "cphase_head"
  /\ ~LoopContinues(ph.attempt, ph.max_attempts)
  /\ phase_result' = CompileFailDict(ph)
  /\ pc' = ReturnPc(ph.kind)
  /\ obs' = [obs EXCEPT !.exhausted = IF ph.error /= 0 THEN ph.kind ELSE @]
  /\ UNCHANGED <<cfg, context_info, actual_mode_used, current_code, attempt, ph,
                 result, raised, stats, session_saved, fix_history, conv_active,
                 calls>>

\* back in _compile_and_fix_loop_with_progress after stage 1
CompilePhaseReturn ==
  /\ pc = "cphase_ret"
  /\ IF ~phase_result.success /\ cfg.fix_strategy = "compile-only"
       THEN /\ result' = phase_result
            /\ pc' = "finish"
            /\ UNCHANGED <<current_code, attempt>>
       ELSE /\ current_code' = GetCode(phase_result, current_code)
            /\ attempt' = GetAttempts(phase_result)
            /\ IF EntersRuntimePhase(cfg.fix_strategy)
                 THEN /\ pc' = "stage2"
                      /\ UNCHANGED result
                 ELSE /\ result' = phase_result
                      /\ pc' = "finish"
  /\ UNCHANGED <<cfg, context_info, actual_mode_used, ph, phase_result, raised,
                 stats, session_saved, fix_history, conv_active, calls, obs>>

\* ---------------------------------------------------------------------
\* stage 2 of _compile_and_fix_loop_with_progress
\* ---------------------------------------------------------------------
\* runtime-only: compile the supplied code first; on failure run the
\* compile-fix phase as a pre-pass
PreCheck ==
  /\ pc = "stage2"
  /\ EntersRuntimePhase(cfg.fix_strategy)
  /\ cfg.fix_strategy = "runtime-only"
  /\ \E o \in CompileOutcomes :
       LET r == compile_test(o)
           n == Bump(calls.compile)
       IN
       /\ calls' = [calls EXCEPT !.compile = n]
       /\ IF r.success
            THEN /\ ph' = RuntimeFrame(current_code,
                                       RuntimeBudget(cfg.max_fix_attempts, attempt))
                 /\ pc' = "rphase_head"
                 /\ obs' = [Saw(NoteCompile(obs, current_code, r, n), o = "raise")
                              EXCEPT !.precheck = "ok",
                                     !.phases = Append(@, "runtime")]
            ELSE /\ ph' = CompileFrame("prepass", current_code, cfg.max_fix_attempts)
                 /\ pc' = "cphase_head"
                 /\ obs' = [Saw(NoteCompile(obs, current_code, r, n), o = "raise")
                              EXCEPT !.precheck = "fail",
                                     !.phases = Append(@, "prepass")]
  /\ UNCHANGED <<cfg, context_info, actual_mode_used, current_code, attempt,
                 phase_result, result, raised, stats, session_saved, fix_history,
                 conv_active>>

\* back from the pre-pass: keep its code only if it succeeded, then enter
\* the runtime phase with what is left of the bound
PrepassReturn ==
  /\ pc = "prepass_ret"
  /\ current_code' = IF phase_result.success
                       THEN GetCode(phase_result, current_code)
                       ELSE current_code
  /\ attempt' = GetAttempts(phase_result)
  /\ ph' = RuntimeFrame(current_code', RuntimeBudget(cfg.max_fix_attempts, attempt'))
  /\ pc' = "rphase_head"
  /\ obs' = [obs EXCEPT !.phases = Append(@, "runtime")]
  /\ UNCHANGED <<cfg, context_info, actual_mode_used, phase_result, result, raised,
                 stats, session_saved, fix_history, conv_active, calls>>

\* both: enter the runtime phase with what stage 1 left of the bound
EnterRuntime ==
  /\ pc = "stage2"
  /\ EntersRuntimePhase(cfg.fix_strategy)
  /\ cfg.fix_strategy /= "runtime-only"
  /\ ph' = RuntimeFrame(current_code, RuntimeBudget(cfg.max_fix_attempts, attempt))
  /\ pc' = "rphase_head"
  /\ obs' = [obs EXCEPT !.phases = Append(@, "runtime")]
  /\ UNCHANGED <<cfg, context_info, actual_mode_used, current_code, attempt,
                 phase_result, result, raised, stats, session_saved, fix_history,
                 conv_active, calls>>

\* a strategy naming neither phase: the default failure at the end
DefaultFail ==
  /\ pc = "stage2"
  /\ ~EntersRuntimePhase(cfg.fix_strategy)
  /\ result' = [NoDict EXCEPT !.keys = {"success", "error", "attempts"},
                              !.error = "strategy_failed", !.attempts = attempt]
  /\ pc' = "finish"
  /\ UNCHANGED <<cfg, context_info, actual_mode_used, current_code, attempt, ph,
                 phase_result, raised, stats, session_saved, fix_history,
                 conv_active, calls, obs>>


\* ---------------------------------------------------------------------
\* _runtime_fix_phase
\* ---------------------------------------------------------------------
\* one loop iteration up to the run: count the attempt, compile the candidate
RuntimeCompile ==
  /\ pc = "rphase_head"
  /\ LoopContinues(ph.attempt, ph.max_attempts)
  /\ \E o \in CompileOutcomes :
       LET r == compile_test(o)
           f == [ph EXCEPT !.attempt = NextAttempt(@)]
           n == Bump(calls.compile)
       IN
       /\ calls' = [calls EXCEPT !.compile = n]
       /\ obs' = Saw(NoteCompile(obs, ph.current_code, r, n), o = "raise")
       /\ IF r.success
            THEN /\ ph' = [f EXCEPT !.class_file = r.class_file]
                 /\ pc' = "rphase_run"
            ELSE /\ ph' = [f EXCEPT !.error = n]
                 /\ pc' = "rphase_cfix"
  /\ UNCHANGED <<cfg, context_info, actual_mode_used, current_code, attempt,
                 phase_result, result, raised, stats, session_saved, fix_history,
                 conv_active>>

\* the candidate does not compile: a compile-fix request, then `continue`;
\* a falsy answer returns the failure at once
RuntimeInlineFix ==
  /\ pc = "rphase_cfix"
  /\ \E o \in LLMOutcomes :
       LET fixed_code == HelperReturn(o) IN
       /\ calls' = [calls EXCEPT !.cfix = Bump(@)]
       /\ obs' = Saw(NoteFix(obs, fixed_code, "runtime_inline"), o.kind = "raise")
       /\ IF Falsy(fixed_code)
            THEN /\ phase_result' = PreRunFailDict(ph)
                 /\ pc' = AfterFailedInlineFix
                 /\ UNCHANGED ph
            ELSE /\ ph' = [ph EXCEPT !.current_code = fixed_code]
                 /\ pc' = "rphase_head"
                 /\ UNCHANGED phase_result
  /\ UNCHANGED <<cfg, context_info, actual_mode_used, current_code, attempt,
                 result, raised, stats, session_saved, fix_history, conv_active>>

\* _run_test on the class file of the compile just made; without a class
\* file the call fails inside _run_test before the runner is started
RuntimeRun ==
  /\ pc = "rphase_run"
  /\ \E o \in RunOutcomes :
       LET started == ph.class_file
           run_success == started /\ o = "pass"
       IN
       /\ (~started => o = "raise")
       /\ calls' = [calls EXCEPT !.run = IF started THEN Bump(@) ELSE @]
       /\ obs' = IF started
                   THEN Saw(NoteRun(obs, ph.current_code, run_success), o = "raise")
                   ELSE Saw(obs, TRUE)
       /\ IF run_success
            THEN /\ stats' = [stats EXCEPT !.runtime_successes = Bump(@)]
                 /\ phase_result' = RuntimeSuccessDict(ph)
                 /\ pc' = "rphase_ret"
                 /\ UNCHANGED ph
            ELSE /\ stats' = [stats EXCEPT !.runtime_failures = Bump(@),
                                           !.fix_attempts = Bump(@)]
                 /\ ph' = [ph EXCEPT !.run_error = 1]
                 /\ pc' = "rphase_rfix"
                 /\ UNCHANGED phase_result
  /\ UNCHANGED <<cfg, context_info, actual_mode_used, current_code, attempt,
                 result, raised, session_saved, fix_history, conv_active>>

\* the runtime-fix request of the iteration; a falsy answer breaks out
RuntimeFix ==
  /\ pc = "rphase_rfix"
  /\ \E o \in LLMOutcomes :
       LET fixed_code == HelperReturn(o) IN
       /\ calls' = [calls EXCEPT !.rfix = Bump(@)]
       /\ obs' = Saw(NoteFix(obs, fixed_code, "runtime"), o.kind = "raise")
       /\ IF Falsy(fixed_code)
            THEN /\ phase_result' = RuntimeFailDict(ph)
                 /\ pc' = "rphase_ret"
                 /\ UNCHANGED ph
            ELSE /\ ph' = [ph EXCEPT !.current_code = fixed_code]
                 /\ pc' = AfterRuntimeFix
                 /\ UNCHANGED phase_result
  /\ UNCHANGED <<cfg, context_info, actual_mode_used, current_code, attempt,
                 result, raised, stats, session_saved, fix_history, conv_active>>

\* the loop condition fails: the failure dict after the loop
RuntimeExhausted ==
  /\ pc = "rphase_head"
  /\ ~LoopContinues(ph.attempt, ph.max_attempts)
  /\ phase_result' = RuntimeFailDict(ph)
  /\ pc' = "rphase_ret"
  /\ UNCHANGED <<cfg, context_info, actual_mode_used, current_code, attempt, ph,
                 result, raised, stats, session_saved, fix_history, conv_active,
                 calls, obs>>

\* back in _compile_and_fix_loop_with_progress: the dict it returns
RuntimePhaseReturn ==
  /\ pc = "rphase_ret"
  /\ result' =
       IF phase_result.success
         THEN [NoDict EXCEPT !.keys = {"success", "code", "attempts", "class_file",
                                       "phases"},
                             !.success = TRUE, !.code = phase_result.code,
                             !.attempts = attempt + phase_result.attempts]
         ELSE [NoDict EXCEPT !.keys = {"success", "error", "attempts", "phases"},
                             !.error = phase_result.error,
                             !.attempts = attempt + phase_result.attempts]
  /\ pc' = "finish"
  /\ UNCHANGED <<cfg, context_info, actual_mode_used, current_code, attempt, ph,
                 phase_result, raised, stats, session_saved, fix_history,
                 conv_active, calls, obs>>

\* ---------------------------------------------------------------------
\* step 5 of generate_test_for_method and its `except Exception`
\* ---------------------------------------------------------------------
ResultExtras == {"method_signature", "context_used", "rag_enabled",
                 "context_mode", "actual_mode_used", "total_duration"}

Finalize ==
  /\ pc = "finish"
  /\ \E saved \in {"ok", "raise"} :
       IF result.success /\ saved = "raise"
         THEN \* _save_test_file raises: the handler of the try block
              /\ obs' = Saw(obs, TRUE)
              /\ IF TryCovers("save")
                THEN /\ result' = ErrorResult("exception")
                     /\ stats' = [stats EXCEPT !.failed_generations = @ + 1]
                     /\ UNCHANGED <<raised, session_saved>>
                ELSE /\ raised' = TRUE
                     /\ UNCHANGED <<result, stats, session_saved>>
         ELSE /\ saved = "ok"
              /\ UNCHANGED obs
              /\ result' = [result EXCEPT
                   !.keys = @ \cup ResultExtras \cup
                            (IF result.success THEN {"test_file_path"} ELSE {})]
              /\ stats' = IF result.success
                   THEN [stats EXCEPT !.generated_tests = @ + 1,
                                      !.compilation_successes = @ + 1,
                                      !.analyzed_methods = @ + 1]
                   ELSE [stats EXCEPT !.failed_generations = @ + 1,
                                      !.compilation_failures = @ + 1,
                                      !.analyzed_methods = @ + 1]
              /\ session_saved' = TRUE
              /\ UNCHANGED raised
  /\ pc' = "done"
  /\ UNCHANGED <<cfg, context_info, actual_mode_used, current_code, attempt, ph,
                 phase_result, fix_history, conv_active, calls>>

Next ==
  \/ Analyze
  \/ GetContext
  \/ Generate
  \/ EnterLoop
  \/ CompilePhaseCompile
  \/ CompilePhaseFix
  \/ CompilePhaseExhausted
  \/ CompilePhaseReturn
  \/ PreCheck
  \/ PrepassReturn
  \/ EnterRuntime
  \/ DefaultFail
  \/ RuntimeCompile
  \/ RuntimeInlineFix
  \/ RuntimeRun
  \/ RuntimeFix
  \/ RuntimeExhausted
  \/ RuntimePhaseReturn
  \/ Finalize

Spec == Init /\ [][Next]_vars

\* the loop is synchronous code: it always takes its next step
FairSpec == Spec /\ WF_vars(Next)

\* ====================================================================
\* SmartFixLoop.generate_and_fix_test
\* ====================================================================
SmartRequests ==
  [fix_strategy : {"both"}, max_fix_attempts : {0},
   use_rag : {FALSE}, context_mode : {"rag"},
   max_compile_fixes : 0..MaxAttemptsBound,
   max_runtime_fixes : 0..MaxAttemptsBound, driver : {"smart"}]

SmartInit ==
  /\ pc = "s_idle"
  /\ cfg \in SmartRequests
  /\ context_info = 0
  /\ actual_mode_used = cfg.context_mode
  /\ current_code = NoneVal
  /\ attempt = 0
  /\ ph = NoFrame
  /\ phase_result = NoDict
  /\ result = NoDict
  /\ raised = FALSE
  /\ stats = Stats0
  /\ session_saved = FALSE
  /\ fix_history = <<>>
  /\ conv_active = FALSE
  /\ calls = Calls0
  /\ obs = Obs0

\* _call_ollama_for_code: success iff the answer is a string that is not
\* blank; every exception is caught
CallOllamaForCode(o) ==
  [success |-> o.kind = "text" /\ o.code \in Codes, code |-> o.code]

\* EnhancedTestPrompt.create_compile_fix_prompt / create_runtime_fix_prompt
\* call method_info.get(...) on their first argument
PromptBuilds(first_arg) == first_arg = "dict"

\* a call that passed method_info first, as the builders expect
SmartPromptFirstArg_dict == "dict"

\* what SmartFixLoop passes as that first argument: original_prompt
SmartPromptFirstArg == "str"

\* result dicts of generate_and_fix_test
SmartFailure(error, n, with_history) ==
  [NoDict EXCEPT !.keys = {"success", "error", "fix_attempts", "total_duration"}
                          \cup (IF with_history THEN {"fix_history"} ELSE {}),
                 !.error = error, !.attempts = n,
                 !.fix_history = IF with_history THEN fix_history ELSE <<>>]

\* the `except Exception` of generate_and_fix_test
SmartExcept == SmartFailure("exception", Len(fix_history), FALSE)

\* start of the call: open the conversation, build the prompt, generate
SmartGenerate ==
  /\ pc = "s_idle"
  /\ conv_active' = TRUE
  /\ \E o \in LLMOutcomes :
       LET generation_result == CallOllamaForCode(o) IN
       /\ calls' = [calls EXCEPT !.gen = Bump(@)]
       /\ IF generation_result.success
            THEN /\ ph' = [NoFrame EXCEPT !.kind = "compile",
                                          !.current_code = generation_result.code,
                                          !.max_attempts = cfg.max_compile_fixes]
                 /\ pc' = "s_compile"
                 /\ obs' = [obs EXCEPT !.lastCall = "gen_ok",
                                       !.lastCode = generation_result.code,
                                       !.phases = Append(@, "compile")]
                 /\ UNCHANGED result
            ELSE /\ result' = SmartFailure("generation_failed", 0, FALSE)
                 /\ pc' = "s_done"
                 /\ obs' = [obs EXCEPT !.genFailed = TRUE, !.lastCall = "gen_empty"]
                 /\ UNCHANGED ph
  /\ UNCHANGED <<cfg, context_info, actual_mode_used, current_code, attempt,
                 phase_result, raised, stats, session_saved, fix_history>>

\* _compile_fix_loop, one iteration: compile; on failure count the attempt,
\* build the fix prompt, request the fix, log the FixAttempt
SmartCompile ==
  /\ pc = "s_compile"
  /\ ph.attempt < ph.max_attempts
  /\ \E o \in CompileOutcomes, fix \in LLMOutcomes :
       LET r == compile_test(o)
           n == Bump(calls.compile)
           fix_result == CallOllamaForCode(fix)
           attempt_count == ph.attempt + 1
       IN
       /\ calls' = [calls EXCEPT
            !.compile = n,
            !.cfix = IF ~r.success /\ PromptBuilds(SmartPromptFirstArg)
                       THEN Bump(@) ELSE @]
       /\ IF r.success
            THEN \* return to generate_and_fix_test, which enters _runtime_fix_loop
                 /\ fix = CHOOSE f \in LLMOutcomes : TRUE
                 /\ ph' = [NoFrame EXCEPT !.kind = "runtime",
                                          !.current_code = ph.current_code,
                                          !.max_attempts = cfg.max_runtime_fixes]
                 /\ pc' = "s_run"
                 /\ obs' = [NoteCompile(obs, ph.current_code, r, n) EXCEPT
                              !.phases = Append(@, "runtime")]
                 /\ UNCHANGED <<result, fix_history, conv_active>>
            ELSE IF ~PromptBuilds(SmartPromptFirstArg)
              THEN \* AttributeError out of the prompt builder: the handler
                   \* of generate_and_fix_test
                   /\ fix = CHOOSE f \in LLMOutcomes : TRUE
                   /\ conv_active' = FALSE
                   /\ result' = SmartExcept
                   /\ pc' = "s_done"
                   /\ ph' = [ph EXCEPT !.attempt = attempt_count]
                   /\ obs' = NoteCompile(obs, ph.current_code, r, n)
                   /\ UNCHANGED fix_history
              ELSE IF ~fix_result.success
                THEN /\ result' = SmartFailure("compile_fix_failed",
                                               Len(fix_history), TRUE)
                     /\ pc' = "s_done"
                     /\ ph' = [ph EXCEPT !.attempt = attempt_count]
                     /\ obs' = NoteFix(NoteCompile(obs, ph.current_code, r, n),
                                       NoneVal, "compile")
                     /\ UNCHANGED <<fix_history, conv_active>>
                ELSE /\ fix_history' = Append(fix_history,
                          [attempt_number |-> attempt_count,
                           error_type |-> "compile", success |-> FALSE,
                           fixed_code |-> fix_result.code])
                     /\ ph' = [ph EXCEPT !.attempt = attempt_count,
                                         !.current_code = fix_result.code]
                     /\ pc' = "s_compile"
                     /\ obs' = NoteFix(NoteCompile(obs, ph.current_code, r, n),
                                       fix_result.code, "compile")
                     /\ UNCHANGED <<result, conv_active>>
  /\ UNCHANGED <<cfg, context_info, actual_mode_used, current_code, attempt,
                 phase_result, raised, stats, session_saved>>

\* _compile_fix_loop after the loop: end the conversation, report the bound
SmartCompileExhausted ==
  /\ pc = "s_compile"
  /\ ~(ph.attempt < ph.max_attempts)
  /\ conv_active' = FALSE
  /\ result' = SmartFailure("compile_exhausted", Len(fix_history), TRUE)
  /\ pc' = "s_done"
  /\ UNCHANGED <<cfg, context_info, actual_mode_used, current_code, attempt, ph,
                 phase_result, raised, stats, session_saved, fix_history, calls,
                 obs>>


\* _runtime_fix_loop, one iteration: run; on failure count the attempt,
\* build the fix prompt, request the fix, log the FixAttempt
SmartRun ==
  /\ pc = "s_run"
  /\ ph.attempt < ph.max_attempts
  /\ \E o \in RunOutcomes, fix \in LLMOutcomes :
       LET fix_result == CallOllamaForCode(fix)
           attempt_count == ph.attempt + 1
           ran == NoteRun(obs, ph.current_code, o = "pass")
       IN
       /\ calls' = [calls EXCEPT
            !.run = Bump(@),
            !.rfix = IF o = "fail" /\ PromptBuilds(SmartPromptFirstArg)
                       THEN Bump(@) ELSE @]
       /\ IF o = "pass"
            THEN \* return to generate_and_fix_test, which verifies the test
                 /\ fix = CHOOSE f \in LLMOutcomes : TRUE
                 /\ pc' = "s_verify"
                 /\ obs' = ran
                 /\ UNCHANGED <<ph, result, fix_history, conv_active>>
            ELSE IF o = "raise" \/ ~PromptBuilds(SmartPromptFirstArg)
              THEN \* the runner raised, or AttributeError out of the prompt
                   \* builder: the handler of generate_and_fix_test
                   /\ fix = CHOOSE f \in LLMOutcomes : TRUE
                   /\ conv_active' = FALSE
                   /\ result' = SmartExcept
                   /\ pc' = "s_done"
                   /\ ph' = [ph EXCEPT !.attempt = IF o = "raise" THEN @ ELSE attempt_count]
                   /\ obs' = ran
                   /\ UNCHANGED fix_history
              ELSE IF ~fix_result.success
                THEN /\ result' = SmartFailure("runtime_fix_failed",
                                               Len(fix_history), TRUE)
                     /\ pc' = "s_done"
                     /\ ph' = [ph EXCEPT !.attempt = attempt_count]
                     /\ obs' = NoteFix(ran, NoneVal, "runtime")
                     /\ UNCHANGED <<fix_history, conv_active>>
                ELSE /\ fix_history' = Append(fix_history,
                          [attempt_number |-> attempt_count,
                           error_type |-> "runtime", success |-> FALSE,
                           fixed_code |-> fix_result.code])
                     /\ ph' = [ph EXCEPT !.attempt = attempt_count,
                                         !.current_code = fix_result.code]
                     /\ pc' = "s_run"
                     /\ obs' = NoteFix(ran, fix_result.code, "runtime")
                     /\ UNCHANGED <<result, conv_active>>
  /\ UNCHANGED <<cfg, context_info, actual_mode_used, current_code, attempt,
                 phase_result, raised, stats, session_saved>>

\* _runtime_fix_loop after the loop: end the conversation, report the bound
SmartRunExhausted ==
  /\ pc = "s_run"
  /\ ~(ph.attempt < ph.max_attempts)
  /\ conv_active' = FALSE
  /\ result' = SmartFailure("runtime_exhausted", Len(fix_history), TRUE)
  /\ pc' = "s_done"
  /\ UNCHANGED <<cfg, context_info, actual_mode_used, current_code, attempt, ph,
                 phase_result, raised, stats, session_saved, fix_history, calls,
                 obs>>

\* _verify_final_test: compile the final code, run its class file; then the
\* last returns of generate_and_fix_test, which end the conversation
SmartVerify ==
  /\ pc = "s_verify"
  /\ \E o \in CompileOutcomes, t \in RunOutcomes :
       LET r == compile_test(o)
           n == Bump(calls.compile)
           compiled == NoteCompile(obs, ph.current_code, r, n)
       IN
       /\ (~r.success => t = "raise")
       /\ calls' = [calls EXCEPT !.compile = n,
                                 !.run = IF r.success THEN Bump(@) ELSE @]
       /\ obs' = IF r.success
                   THEN NoteRun(compiled, ph.current_code, t = "pass")
                   ELSE compiled
       /\ result' =
            IF r.success /\ t = "pass"
              THEN [NoDict EXCEPT
                      !.keys = {"success", "generated_test", "fix_attempts",
                                "total_duration", "fix_history",
                                "final_verification"},
                      !.success = TRUE, !.code = ph.current_code,
                      !.attempts = Len(fix_history),
                      !.fix_history = fix_history]
              ELSE [SmartFailure("final_verification_failed", Len(fix_history), TRUE)
                      EXCEPT !.keys = @ \cup {"final_verification"}]
  /\ conv_active' = FALSE
  /\ pc' = "s_done"
  /\ UNCHANGED <<cfg, context_info, actual_mode_used, current_code, attempt, ph,
                 phase_result, raised, stats, session_saved, fix_history>>

SmartNext ==
  \/ SmartGenerate
  \/ SmartCompile
  \/ SmartCompileExhausted
  \/ SmartRun
  \/ SmartRunExhausted
  \/ SmartVerify

SmartSpec == SmartInit /\ [][SmartNext]_vars

\* both drivers of the generation-repair loop
LoopInit == Init \/ SmartInit

LoopNext == Next \/ SmartNext

LoopSpec == LoopInit /\ [][LoopNext]_vars

TypeOK ==
  /\ cfg \in Requests \cup SmartRequests
  /\ context_info \in 0..MaxCtx
  /\ current_code \in {NoneVal, EmptyStr} \cup Codes
  /\ attempt \in 0..CounterCap
  /\ raised \in BOOLEAN
  /\ session_saved \in BOOLEAN


\* ====================================================================
\* Properties
\* ====================================================================
Improved == cfg.driver = "improved"

FixRequests == calls.cfix + calls.rfix

Returned == pc \in {"finish", "done"}

\* C1: in one session of ImprovedTestGenerator the number of fix requests
\* sent to the model (compile-fix, runtime-fix, and compile-fix requests
\* made inside the runtime phase) never exceeds maxCompileAttempts +
\* maxRuntimeAttempts; both bounds are max_fix_attempts here.
C1_FixRequestsBounded ==
  FixRequests <= cfg.max_fix_attempts + cfg.max_fix_attempts

\* a finished session that sent fix requests of both kinds
C1_Witness ==
  /\ pc = "done"
  /\ calls.cfix >= 1
  /\ calls.rfix >= 1
  /\ FixRequests >= 3

\* C2: every session reaches a terminal state after finitely many compile,
\* run and fix steps, whatever the collaborators answer.
C2_Terminates == <>(pc = "done")

\* a finished session that went round both loops
C2_Witness ==
  /\ pc = "done"
  /\ calls.compile >= 3
  /\ calls.run >= 2
  /\ calls.cfix >= 1
  /\ calls.rfix >= 1

\* C3: the test runner is started only on a candidate whose immediately
\* preceding compile check was made on that candidate and passed; in the
\* runtime phase a candidate that fails the check goes to a compile-fix
\* request, and nothing is run until a later check passes.
C3_RunOnlyFreshlyCompiled ==
  /\ ~obs.ranStale
  /\ ~obs.ranAfterFail
  /\ pc = "rphase_run" =>
       /\ obs.fresh
       /\ obs.lastCall = "compile_ok"
       /\ obs.lastCode = ph.current_code
  /\ pc = "rphase_cfix" =>
       /\ obs.lastCall = "compile_fail"
       /\ obs.lastCode = ph.current_code

\* the runner has just passed a candidate that a runtime fix produced and
\* an inline compile fix repaired
C3_Witness ==
  /\ obs.lastCall = "run_ok"
  /\ calls.run >= 2
  /\ calls.rfix >= 1
  /\ obs.failedFix = "none"
  /\ Len(obs.phases) >= 1
  /\ ph.kind = "runtime"
  /\ ph.attempt >= 3

\* C4: in a `both` session with a bound of at least 1, a candidate the
\* compiler accepts is then run, and if the runner passes it the session
\* succeeds with that candidate as its code.
C4_CompiledCandidateIsRun ==
  (Improved /\ cfg.fix_strategy = "both" /\ cfg.max_fix_attempts >= 1
     /\ pc = "finish") =>
    /\ obs.lastCall /= "compile_ok"
    /\ obs.lastCall = "run_ok" => (result.success /\ result.code = obs.lastCode)

\* C5: when the compile phase runs into its bound with the compiler still
\* failing, the session ends FAILED with the error "compile fix attempts
\* exhausted" and the last compiler diagnostic in the result, in every
\* strategy that enters the compile phase.
C5_CompileExhaustionReported ==
  (Improved /\ Returned /\ obs.exhausted /= "none") =>
    /\ ~result.success
    /\ result.error = "compile_exhausted"
    /\ "last_error" \in result.keys
    /\ result.last_error = obs.lastDiag

C7_EmptyGenerationFails ==
  /\ calls.gen <= 1
  /\ ~obs.compiledEmpty
  /\ obs.genFailed =>
       /\ pc = "done"
       /\ ~result.success
       /\ result.error = "generation_failed"
       /\ calls.compile = 0
       /\ calls.run = 0
       /\ FixRequests = 0

\* the generation came back empty and the session is over
C7_Witness ==
  /\ obs.genFailed
  /\ obs.lastCall = "gen_empty"
  /\ pc = "done"
  /\ calls.gen = 1

\* C8: compile-only never runs a test and never asks for a runtime fix;
\* both enters the compile phase and then the runtime phase; runtime-only
\* runs the compile-fix phase as a pre-pass exactly when the supplied code
\* fails its compile check, and runs nothing before that check.
C8_StrategySelectsPhases ==
  /\ (Improved /\ cfg.fix_strategy = "compile-only") =>
       /\ calls.run = 0
       /\ calls.rfix = 0
       /\ obs.phases \in {<<>>, <<"compile">>}
  /\ (Improved /\ cfg.fix_strategy = "both") =>
       /\ obs.phases \in {<<>>, <<"compile">>, <<"compile", "runtime">>}
       /\ pc = "finish" => obs.phases = <<"compile", "runtime">>
  /\ (Improved /\ cfg.fix_strategy = "runtime-only") =>
       /\ obs.phases \in {<<>>, <<"runtime">>, <<"prepass">>,
                          <<"prepass", "runtime">>}
       /\ (obs.phases /= <<>>) => (obs.precheck /= "none")
       /\ (obs.precheck = "fail") <=> (obs.phases /= <<>> /\ obs.phases[1] = "prepass")
       /\ (calls.run > 0 \/ FixRequests > 0) => obs.precheck /= "none"
       /\ pc = "finish" => obs.phases[Len(obs.phases)] = "runtime"

\* a runtime-only session whose code failed the check, went through the
\* pre-pass and was then run
C8_Witness ==
  /\ cfg.fix_strategy = "runtime-only"
  /\ obs.phases = <<"prepass", "runtime">>
  /\ calls.cfix >= 1
  /\ calls.run >= 1
  /\ pc = "done"

\* C9: no exception leaves the entry point: whatever a collaborator raises,
\* generate_test_for_method returns a dict with success, and with an error
\* string when it failed; each phase returns a dict with success and its
\* code or error.
C9_NoRawException ==
  /\ ~raised
  /\ pc = "done" =>
       /\ "success" \in result.keys
       /\ ~result.success => ("error" \in result.keys /\ result.error /= "")
  /\ pc \in {"cphase_ret", "prepass_ret", "rphase_ret"} =>
       /\ "success" \in phase_result.keys
       /\ phase_result.success => "code" \in phase_result.keys
       /\ ~phase_result.success =>
            ("error" \in phase_result.keys /\ phase_result.error /= "")

\* the handler of the try block has turned an exception into a result
C9_Witness ==
  /\ pc = "done"
  /\ obs.sawRaise
  /\ result.error = "exception"
  /\ ~result.success

\* C10: the result of a failed session holds an error string, the log of
\* the fix attempts made, and the last candidate that existed.
C10_FailureResultComplete ==
  (Improved /\ pc = "done" /\ ~result.success) =>
    /\ "error" \in result.keys /\ result.error /= ""
    /\ FixRequests > 0 => "fix_history" \in result.keys
    /\ obs.candidate \in Codes =>
         ("code" \in result.keys /\ result.code = obs.candidate)

Smart == cfg.driver = "smart"

RecordsOfType(t) == SelectSeq(fix_history, LAMBDA r : r.error_type = t)

\* C11: every entry into COMPILE_FIXING or RUNTIME_FIXING leaves one
\* FixAttempt record in the session log, written before the model is
\* invoked (so also when the model call fails), and the record's success
\* flag is set afterwards to the outcome of the next check of the fixed
\* code. In SmartFixLoop the loop's attempt_count counts the entries into
\* the fixing state of the running loop.
C11_FixAttemptRecorded ==
  (Smart /\ ph.kind \in {"compile", "runtime"}) =>
    /\ Len(RecordsOfType(ph.kind)) = ph.attempt
    /\ \A i \in 1..Len(fix_history) :
         (i < Len(fix_history) \/ pc \in {"s_verify", "s_done"}) =>
           (fix_history[i].success <=>
              /\ i = Len(fix_history)
              /\ "success" \in result.keys => result.success)

\* C12 (scenario C): in a `both` session with a bound of 2 whose first
\* compile fails, exactly one compile-fix request has been made when the
\* second compile starts; if the second compile fails too, the session
\* ends FAILED with exactly 2 FixAttempt records of type compile.
C12_ScenarioC ==
  (Improved /\ cfg.fix_strategy = "both" /\ cfg.max_fix_attempts = 2) =>
    /\ (pc = "cphase_head" /\ ph.attempt = 1) => calls.cfix = 1
    /\ (pc = "done" /\ obs.exhausted = "compile") =>
         /\ ~result.success
         /\ "fix_history" \in result.keys
         /\ Len(RecordsOfType("compile")) = 2
         /\ Len(RecordsOfType("runtime")) = 0

\* ====================================================================
\* Components checked on their own. They use pc, cfg (the arguments of
\* the call), attempt, stats, result and obs; the other variables rest.
\* ====================================================================
ComponentIdle ==
  /\ context_info = 0
  /\ actual_mode_used = "none"
  /\ current_code = NoneVal
  /\ ph = NoFrame
  /\ phase_result = NoDict
  /\ raised = FALSE
  /\ session_saved = FALSE
  /\ fix_history = <<>>
  /\ conv_active = FALSE
  /\ calls = Calls0

ComponentFrame ==
  UNCHANGED <<context_info, actual_mode_used, current_code, ph, phase_result,
              raised, session_saved, fix_history, conv_active, calls>>

\* ====================================================================
\* OllamaClient._make_request (call_unstructured passes straight through)
\* ====================================================================
MaxRetriesBound == 3

\* what one POST to /api/generate can end in: "ok" is a non-empty answer
\* that does not end in "...", "empty" an answer that is empty (or empty
\* after cleaning), "other" any exception that is none of the three caught
AttemptOutcomes ==
  {"ok", "truncated", "empty", "connection", "http_timeout", "other"}

FailedAttempts == {"truncated", "empty", "connection", "http_timeout"}

ClientInit ==
  /\ pc = "mr_attempt"
  /\ cfg \in [max_retries : 0..MaxRetriesBound]
  /\ attempt = 1
  /\ stats = [request_count |-> 0]
  /\ result = [kind |-> "none", content |-> "none"]
  /\ obs = <<>>
  /\ ComponentIdle

\* `attempt < self.max_retries`
RetriesLeft(a, max) == a < max

Returns(content) == [kind |-> "return", content |-> content]

Raises(error) == [kind |-> "raise", content |-> error]

\* one activation of _make_request: the POST, then retry (the recursive
\* call), return or raise
MakeRequest ==
  /\ pc = "mr_attempt"
  /\ \E o \in AttemptOutcomes :
       /\ obs' = Append(obs, o)
       /\ stats' = [stats EXCEPT
            !.request_count = IF o = "other" THEN @ ELSE @ + 1]
       /\ IF o = "other"
            THEN /\ result' = Raises("uncaught")
                 /\ pc' = "mr_done"
                 /\ UNCHANGED attempt
          ELSE IF o = "truncated"
            THEN IF RetriesLeft(attempt, cfg.max_retries)
                   THEN /\ attempt' = attempt + 1
                        /\ UNCHANGED <<pc, result>>
                   ELSE /\ result' = Raises("RuntimeError")
                        /\ pc' = "mr_done"
                        /\ UNCHANGED attempt
          ELSE IF o = "empty" /\ RetriesLeft(attempt, cfg.max_retries)
            THEN /\ attempt' = attempt + 1
                 /\ UNCHANGED <<pc, result>>
          ELSE IF o \in {"ok", "empty"}
            THEN /\ result' = Returns(o)
                 /\ pc' = "mr_done"
                 /\ UNCHANGED attempt
          ELSE \* ConnectionError, HTTPError or Timeout
               IF RetriesLeft(attempt, cfg.max_retries)
                 THEN /\ attempt' = attempt + 1
                      /\ UNCHANGED <<pc, result>>
                 ELSE /\ result' = Raises("RuntimeError")
                      /\ pc' = "mr_done"
                      /\ UNCHANGED attempt
  /\ UNCHANGED cfg
  /\ ComponentFrame

ClientNext == MakeRequest

ClientSpec == ClientInit /\ [][ClientNext]_vars

\* C13: the backend call fails once its retries are exhausted: when each
\* of the max_retries attempts ended in a connection failure, a timeout or
\* HTTP error, a truncated answer or an empty answer, the call raises and
\* does not return a response.
C13_ExhaustedRetriesRaise ==
  (/\ pc = "mr_done"
   /\ cfg.max_retries >= 1
   /\ Len(obs) = cfg.max_retries
   /\ \A i \in 1..Len(obs) : obs[i] \in FailedAttempts) =>
    result.kind = "raise"

\* ====================================================================
\* ProjectAnalyzer.find_relevant_context
\* ====================================================================
MaxDocs == 2

MaxTopK == 2

MaxQueries == 2

\* classes found by the record pass / the dependency pass beyond the first
MaxExtraClasses == 1

\* what the content of an item says about the record class R and the
\* imported class I: "record_def" contains `record R` and is longer than
\* 100 characters, "record_mention" contains `record R` and is not,
\* "class_def" contains `class I` and is longer than 100 characters
Contents == {"plain", "record_mention", "record_def", "class_def"}

DocIds == 1..MaxDocs

\* distances are counted in hundredths
StoreDistances == {5, 70}

\* 'distance': 0.5 of an injected imported-class definition
ImportedDefinitionDistance == 50

\* 'distance': 0.1 of the smart-analysis item
SmartAnalysisDistance == 10

\* 'distance': 0.2 of a smart-analysis dependency item
SmartDependencyDistance == 20

\* 'distance': 0.15 of an external-library item
ExternalLibraryDistance == 15

\* ids of the synthesized items: f"smart_analysis_{class_name}",
\* f"smart_analysis_dep_{dependency}", f"external_lib_{class_name}"
SmartAnalysisId == MaxDocs + 1

SmartDependencyId == MaxDocs + 2

ExternalLibraryId == MaxDocs + 3

\* a query list shorter than MaxQueries behaves like one whose last
\* searches find nothing. The embedding store: one document per id; ids are interchangeable, so
\* the contents are listed in one order only
ContentOrder ==
  <<"plain", "record_mention", "record_def", "class_def">>

ContentRank(c) == CHOOSE n \in 1..Len(ContentOrder) : ContentOrder[n] = c

Stores ==
  {st \in [DocIds -> Contents] :
     \A i \in DocIds : \A j \in DocIds :
       i < j => ContentRank(st[i]) <= ContentRank(st[j])}

Min(a, b) == IF a < b THEN a ELSE b

\* search_similar_code: at most top_k documents of the store, each once,
\* with the distance of this query; [] when the store raises
Hits(store, top_k) ==
  {h \in UNION {[1..n -> [id : DocIds, distance : StoreDistances]] :
                  n \in 0..Min(top_k, MaxDocs)} :
     \A i \in 1..Len(h) : \A j \in 1..Len(h) : i /= j => h[i].id /= h[j].id}

Item(store, hit) ==
  [id |-> hit.id, distance |-> hit.distance, content |-> store[hit.id]]

\* variant: no identity check before an append
HasId_never(results, id) == FALSE

\* `result_id not in seen_ids`, `any(r.get('id') == result_id ...)`
HasId(results, id) == \E i \in 1..Len(results) : results[i].id = id

\* `if result_id and result_id not in seen_ids: all_results.append(result)`
\* (also the append of the record pass and of the dependency pass)
RECURSIVE MergeHits(_, _, _)
MergeHits(results, store, hits) ==
  IF hits = <<>> THEN results
  ELSE MergeHits(IF HasId(results, Head(hits).id)
                   THEN results
                   ELSE Append(results, Item(store, Head(hits))),
                 store, Tail(hits))

\* variant: a key that does not look at the distance
DistanceKey_constant(x) == 0

\* key of the final sort, x.get('distance', 1.0): every item has a distance
DistanceKey(x) == x.distance

\* list.sort(key=...): stable, ascending
RECURSIVE SortByDistance(_)
SortByDistance(seq) ==
  IF seq = <<>> THEN <<>>
  ELSE LET rest == SortByDistance(SubSeq(seq, 1, Len(seq) - 1))
           x == seq[Len(seq)]
           k == Cardinality({i \in 1..Len(rest) :
                               DistanceKey(rest[i]) <= DistanceKey(x)})
       IN SubSeq(rest, 1, k) \o <<x>> \o SubSeq(rest, k + 1, Len(rest))

\* all_results[:top_k]
Truncate(seq, top_k) == SubSeq(seq, 1, Min(top_k, Len(seq)))

\* re.findall(r'record\s+(\w+)', content) finds R
NamesRecord(c) == c \in {"record_mention", "record_def"}

\* R occurs in the content
MentionsRecord(c) == c \in {"record_mention", "record_def"}

\* `record R` in content and len(content) > 100
IsRecordDefinition(c) == c = "record_def"

\* `class I` in content and len(content) > 100
IsImportedDefinition(c) == c = "class_def"

\* what _format_smart_analysis / the external-library text can say
SyntheticContents == {"plain", "record_mention", "record_def"}

\* record classes the record pass will look up: R when a result names it,
\* and the classes added from the metadata of the results
RecordClassCounts(results) ==
  LET r == IF \E i \in 1..Len(results) : NamesRecord(results[i].content)
             THEN 1 ELSE 0
  IN {r + extra : extra \in 0..MaxExtraClasses}

\* a hit list holds an id that the merged list already has
Repeats(results, hits) ==
  \E i \in 1..Len(hits) :
    \/ \E j \in 1..Len(results) : results[j].id = hits[i].id
    \/ \E j \in 1..Len(hits) : j /= i /\ hits[j].id = hits[i].id

RetrievalInit ==
  /\ pc = "fr_query"
  /\ cfg \in [top_k : 0..MaxTopK, store : Stores, queries : {MaxQueries}]
  /\ attempt = cfg.queries
  /\ stats = Stats0
  /\ result = <<>>
  /\ obs = [all_results |-> <<>>, deduplicated |-> FALSE]
  /\ ComponentIdle

\* one iteration of `for query in queries`
RunQuery ==
  /\ pc = "fr_query"
  /\ attempt > 0
  /\ \E hits \in Hits(cfg.store, cfg.top_k) :
       obs' = [obs EXCEPT
                 !.all_results = MergeHits(@, cfg.store, hits),
                 !.deduplicated = @ \/ Repeats(obs.all_results, hits)]
  /\ attempt' = attempt - 1
  /\ pc' = IF attempt = 1 THEN "fr_imported" ELSE "fr_query"
  /\ UNCHANGED <<cfg, result, stats>>
  /\ ComponentFrame

\* first hit of the direct search that is a full definition of I
FirstDefinition(store, hits) ==
  LET idx == {i \in 1..Len(hits) : IsImportedDefinition(store[hits[i].id])}
  IN IF idx = {} THEN <<>>
     ELSE LET i == CHOOSE i \in idx : \A j \in idx : i <= j
          IN <<[Item(store, hits[i]) EXCEPT
                  !.distance = ImportedDefinitionDistance]>>

\* _ensure_imported_class_definitions for a class that imports I (or
\* nothing); then the record classes of _ensure_record_definitions
EnsureImportedClassDefinitions ==
  /\ pc = "fr_imported"
  /\ \E imports \in BOOLEAN, hits \in Hits(cfg.store, 3) :
       LET results == obs.all_results
           has_definition ==
             \E i \in 1..Len(results) : IsImportedDefinition(results[i].content)
           added == IF imports /\ ~has_definition
                      THEN FirstDefinition(cfg.store, hits) ELSE <<>>
       IN
       /\ (~imports \/ has_definition) => hits = <<>>
       /\ obs' = [obs EXCEPT !.all_results = results \o added]
  /\ \E n \in RecordClassCounts(obs'.all_results) : attempt' = 3 * n
  /\ pc' = "fr_record"
  /\ UNCHANGED <<cfg, result, stats>>
  /\ ComponentFrame

\* _ensure_record_definitions: one search of `for query in record_queries`;
\* an exception ends the pass with what was added so far
EnsureRecordDefinitions ==
  /\ pc = "fr_record"
  /\ attempt > 0
  /\ \/ /\ \E hits \in Hits(cfg.store, 2) :
            obs' = [obs EXCEPT
                      !.all_results = MergeHits(@, cfg.store, hits),
                      !.deduplicated = @ \/ Repeats(obs.all_results, hits)]
         /\ attempt' = attempt - 1
     \/ /\ attempt' = 0
        /\ UNCHANGED obs
  /\ UNCHANGED <<pc, cfg, result, stats>>
  /\ ComponentFrame

\* the record pass returns; the dependency classes of
\* _ensure_dependency_definitions, four queries each
RecordDefinitionsDone ==
  /\ pc = "fr_record"
  /\ attempt = 0
  /\ \E n \in 0..MaxExtraClasses : attempt' = 4 * n
  /\ pc' = "fr_dependency"
  /\ UNCHANGED <<cfg, result, obs, stats>>
  /\ ComponentFrame

\* _ensure_dependency_definitions: one search of `for query in dep_queries`
EnsureDependencyDefinitions ==
  /\ pc = "fr_dependency"
  /\ attempt > 0
  /\ \/ /\ \E hits \in Hits(cfg.store, 2) :
            obs' = [obs EXCEPT
                      !.all_results = MergeHits(@, cfg.store, hits),
                      !.deduplicated = @ \/ Repeats(obs.all_results, hits)]
         /\ attempt' = attempt - 1
     \/ /\ attempt' = 0
        /\ UNCHANGED obs
  /\ UNCHANGED <<pc, cfg, result, stats>>
  /\ ComponentFrame

DependencyDefinitionsDone ==
  /\ pc = "fr_dependency"
  /\ attempt = 0
  /\ pc' = "fr_smart"
  /\ UNCHANGED <<cfg, result, obs, stats, attempt>>
  /\ ComponentFrame

\* _enhance_with_smart_analysis: nothing when the class cannot be
\* analysed; else the analysis item at the head and one item per
\* analysed dependency at the end
EnhanceWithSmartAnalysis ==
  /\ pc = "fr_smart"
  /\ \E analysed \in BOOLEAN, deps \in 0..1, c \in SyntheticContents,
        d \in SyntheticContents :
       LET head == <<[id |-> SmartAnalysisId,
                      distance |-> SmartAnalysisDistance, content |-> c]>>
           dep == <<[id |-> SmartDependencyId,
                     distance |-> SmartDependencyDistance, content |-> d]>>
       IN
       /\ ~analysed => (deps = 0 /\ c = "plain")
       /\ deps = 0 => d = "plain"
       /\ obs' = [obs EXCEPT
            !.all_results = IF ~analysed THEN @
                            ELSE head \o @ \o (IF deps = 1 THEN dep ELSE <<>>)]
  /\ pc' = "fr_external"
  /\ UNCHANGED <<cfg, result, stats, attempt>>
  /\ ComponentFrame

\* _add_external_library_context for at most one external class, then the
\* sort and the slice that end find_relevant_context
AddExternalLibraryContext ==
  /\ pc = "fr_external"
  /\ \E external \in BOOLEAN :
       LET lib == <<[id |-> ExternalLibraryId,
                     distance |-> ExternalLibraryDistance, content |-> "plain"]>>
           all_results == obs.all_results \o (IF external THEN lib ELSE <<>>)
       IN
       /\ obs' = [obs EXCEPT !.all_results = SortByDistance(all_results)]
       /\ result' = Truncate(SortByDistance(all_results), cfg.top_k)
  /\ pc' = "fr_done"
  /\ UNCHANGED <<cfg, stats, attempt>>
  /\ ComponentFrame

RetrievalNext ==
  \/ RunQuery
  \/ EnsureImportedClassDefinitions
  \/ EnsureRecordDefinitions
  \/ RecordDefinitionsDone
  \/ EnsureDependencyDefinitions
  \/ DependencyDefinitionsDone
  \/ EnhanceWithSmartAnalysis
  \/ AddExternalLibraryContext

RetrievalSpec == RetrievalInit /\ [][RetrievalNext]_vars

Ascending(seq) ==
  \A i \in 1..Len(seq) : \A j \in 1..Len(seq) :
    i < j => seq[i].distance <= seq[j].distance

DistinctIds(seq) ==
  \A i \in 1..Len(seq) : \A j \in 1..Len(seq) :
    i /= j => seq[i].id /= seq[j].id

\* C14: the list returned by find_relevant_context has at most top_k items
\* and is ordered ascending by distance, injected items included.
C14_AtMostTopKAscending ==
  pc = "fr_done" =>
    /\ Len(result) <= cfg.top_k
    /\ Ascending(result)

\* a truncated list in which the smart-analysis item, inserted at the head
\* of the merged list, stands after a nearer store hit
C14_Witness ==
  /\ pc = "fr_done"
  /\ cfg.top_k >= 2
  /\ Len(result) = cfg.top_k
  /\ Len(obs.all_results) > cfg.top_k
  /\ \E i \in 1..Len(result) : \E j \in 1..Len(result) :
       /\ i < j
       /\ result[i].id \in DocIds
       /\ result[j].id = SmartAnalysisId
       /\ result[i].distance < result[j].distance

\* C15: within one call no two items of the merged, ranked or returned
\* list have the same id, whichever query or injection pass produced them.
C15_DeduplicatedById ==
  /\ DistinctIds(obs.all_results)
  /\ DistinctIds(result)

\* a returned list of several items after a repeated hit was dropped and an
\* injection pass added an item
C15_Witness ==
  /\ pc = "fr_done"
  /\ obs.deduplicated
  /\ Len(result) >= 2
  /\ \E i \in 1..Len(result) : result[i].id \in DocIds
  /\ \E i \in 1..Len(result) : result[i].id \notin DocIds

\* C16: if the record class R is mentioned in the content of a returned
\* item, the returned list holds an item whose content contains `record R`
\* and is longer than 100 characters (here for a store that holds such a
\* definition).
C16_RecordDefinitionReturned ==
  (/\ pc = "fr_done"
   /\ \E d \in DocIds : IsRecordDefinition(cfg.store[d])
   /\ \E i \in 1..Len(result) : MentionsRecord(result[i].content)) =>
    \E i \in 1..Len(result) : IsRecordDefinition(result[i].content)

\* ====================================================================
\* Error-driven context enhancement: _fix_compilation_error_with_debug and
\* _fix_runtime_error_with_debug of ImprovedTestGenerator with
\* ContextAwareGenerator.enhance_context_from_compilation_errors /
\* enhance_context_from_runtime_errors. A context item is its 'content'
\* and its metadata 'source'; cfg.context_info is the list the session
\* retrieved, stats.context_info the list object the repair loop holds,
\* stats.error_enhanced_contexts the generator's record of added items,
\* result the list handed to the fix prompt, attempt the fix calls made.
\* ====================================================================
MaxItems == 2
MaxFixCalls == 2

ItemContents == {"k1", "k2"}

RetrievedItems == [content : ItemContents, source : {"retrieved"}]

\* ErrorContextEnhancer builds every item with "source": "error_analysis"
SynthesizedItems == [content : ItemContents, source : {"error_analysis"}]

ListsOf(S) == UNION {[1..n -> S] : n \in 0..MaxItems}

ContentsOf(seq) == {seq[i].content : i \in 1..Len(seq)}

\* the loop over enhanced_contexts: an item is kept when its content is
\* in neither the existing list nor an item kept before it
RECURSIVE NewContexts(_, _)
NewContexts(existing_content, enhanced) ==
  IF enhanced = <<>> THEN <<>>
  ELSE IF Head(enhanced).content \in existing_content
       THEN NewContexts(existing_content, Tail(enhanced))
       ELSE <<Head(enhanced)>> \o
            NewContexts(existing_content \cup {Head(enhanced).content},
                        Tail(enhanced))

Concat_prepend(existing_contexts, new_contexts) ==
  new_contexts \o existing_contexts

\* `existing_contexts + new_contexts`: a new list, the operands untouched
Concat(existing_contexts, new_contexts) ==
  existing_contexts \o new_contexts

\* what the body of the try can do: the enhancer returns a list, or
\* something in the try raises
EnhancerOutcomes ==
  [raises : {FALSE}, contexts : ListsOf(SynthesizedItems)]
    \cup [raises : {TRUE}, contexts : {<<>>}]

\* enhance_context_from_compilation_errors / _runtime_errors
EnhanceContext(existing_contexts, enhanced) ==
  IF enhanced.raises THEN existing_contexts
  ELSE LET new_contexts ==
             NewContexts(ContentsOf(existing_contexts), enhanced.contexts)
       IN IF new_contexts # <<>>
          THEN Concat(existing_contexts, new_contexts)
          ELSE existing_contexts

\* enhanced_context_info[len(context_info):]
Added(context_info_arg, enhanced_context_info) ==
  IF Len(enhanced_context_info) > Len(context_info_arg)
  THEN SubSeq(enhanced_context_info, Len(context_info_arg) + 1,
              Len(enhanced_context_info))
  ELSE <<>>

EnhanceInit ==
  /\ pc = "fx_ready"
  /\ cfg \in [context_info : ListsOf(RetrievedItems)]
  /\ attempt = 0
  /\ stats = [context_info |-> cfg.context_info,
              error_enhanced_contexts |-> <<>>]
  /\ result = [kind |-> "none", context_info |-> <<>>]
  /\ obs = <<>>
  /\ ComponentIdle

\* one call of a fix function, up to the prompt it builds
FixWithDebug(kind, enhanced) ==
  /\ pc = "fx_ready"
  /\ attempt < MaxFixCalls
  /\ LET enhanced_context_info ==
           EnhanceContext(stats.context_info, enhanced)
     IN /\ stats' = [stats EXCEPT !.error_enhanced_contexts =
                       @ \o Added(stats.context_info, enhanced_context_info)]
        /\ result' = [kind |-> kind, context_info |-> enhanced_context_info]
  /\ attempt' = attempt + 1
  /\ obs' = Append(obs, kind)
  /\ UNCHANGED <<pc, cfg>>
  /\ ComponentFrame

FixCompilationErrorWithDebug ==
  \E enhanced \in EnhancerOutcomes :
     FixWithDebug("compile_fix", enhanced)

FixRuntimeErrorWithDebug ==
  \E enhanced \in EnhancerOutcomes :
     FixWithDebug("runtime_fix", enhanced)

EnhanceNext ==
  \/ FixCompilationErrorWithDebug
  \/ FixRuntimeErrorWithDebug

EnhanceSpec == EnhanceInit /\ [][EnhanceNext]_vars

IsPrefix(p, seq) ==
  /\ Len(p) <= Len(seq)
  /\ \A i \in 1..Len(p) : seq[i] = p[i]

\* C17: the list handed to a fix prompt starts with the retrieved list,
\* item for item and in order, everything after it was synthesized from
\* the diagnostic, and the list the session holds is still the retrieved
\* list after any number of fix calls.
C17_EnhancementOnlyAppends ==
  /\ stats.context_info = cfg.context_info
  /\ result.kind # "none" =>
       /\ IsPrefix(cfg.context_info, result.context_info)
       /\ \A i \in (Len(cfg.context_info) + 1)..Len(result.context_info) :
             result.context_info[i].source = "error_analysis"

C17_Witness ==
  /\ attempt = MaxFixCalls
  /\ obs = <<"compile_fix", "runtime_fix">>
  /\ cfg.context_info # <<>>
  /\ Len(result.context_info) > Len(cfg.context_info)
  /\ Len(stats.error_enhanced_contexts) > Len(result.context_info)
                                            - Len(cfg.context_info)

\* ====================================================================
\* Fallback of the context-aware mode (generate_test_for_method, step 2)
\* ====================================================================
\* the context-aware getter returned nothing and the request was switched
\* to the retriever: actual_mode_used = "rag" in a context-aware request
FellBack ==
  /\ Improved
  /\ cfg.context_mode = "context-aware"
  /\ actual_mode_used = "rag"

\* C18: a context-aware request whose context generation failed goes on
\* to generation with the context the retriever pipeline returned: the
\* retriever was run for it (one retrieval counted), the request was not
\* ended at the context step.
C18_FallbackRunsRetriever ==
  FellBack => /\ stats.context_retrievals = 1
              /\ pc # "done" \/ calls.gen > 0

\* ====================================================================
\* ProjectTypeResolver: _add_class_to_mapping and resolve_type. A package
\* is the sequence of its dot-separated parts, <<>> the empty string of a
\* file without a package statement. stats holds type_mapping and
\* ambiguous_types, obs the classes in the order they were discovered,
\* attempt the number of files added, cfg the arguments of resolve_type.
\* ====================================================================
MaxFiles == 3

ClassNames == {"Helper", "Util"}

Packages == {<<>>, <<"a", "b">>, <<"a", "c">>, <<"x">>}

\* context_package: None (the default), or a package name
ContextPackages ==
  [is_none : {TRUE}, parts : {<<>>}]
    \cup [is_none : {FALSE},
          parts : Packages \cup {<<"a", "b", "target">>, <<"a">>}]

ClassInfos == [name : ClassNames, package : Packages, file : 1..MaxFiles]

NoClass == [name |-> "None", package |-> <<>>, file |-> 0]

\* `if context_package:` is false for None and for the empty string
ContextGiven(context_package) ==
  ~context_package.is_none /\ context_package.parts # <<>>

\* the length of the common prefix of the two part lists
RECURSIVE CommonPrefix(_, _)
CommonPrefix(parts1, parts2) ==
  IF parts1 = <<>> \/ parts2 = <<>> THEN 0
  ELSE IF Head(parts1) = Head(parts2)
       THEN 1 + CommonPrefix(Tail(parts1), Tail(parts2))
       ELSE 0

\* _calculate_package_similarity
CalculatePackageSimilarity(package1, package2) ==
  IF package1 = <<>> \/ package2 = <<>> THEN 0
  ELSE CommonPrefix(package1, package2)

\* the loop `if similarity > max_similarity`: best so far and its score
RECURSIVE BestCandidate(_, _, _, _)
BestCandidate(candidates, context, best_candidate, max_similarity) ==
  IF candidates = <<>> THEN best_candidate
  ELSE LET similarity ==
             CalculatePackageSimilarity(context, Head(candidates).package)
       IN IF similarity > max_similarity
          THEN BestCandidate(Tail(candidates), context,
                             Head(candidates), similarity)
          ELSE BestCandidate(Tail(candidates), context,
                             best_candidate, max_similarity)

\* the first candidate of the given package, NoClass when there is none
RECURSIVE SamePackage(_, _)
SamePackage(candidates, package) ==
  IF candidates = <<>> THEN NoClass
  ELSE IF Head(candidates).package = package THEN Head(candidates)
       ELSE SamePackage(Tail(candidates), package)

\* resolve_type for a name with several candidates
Best(candidates, context_package) ==
  IF ~ContextGiven(context_package) THEN candidates[1]
  ELSE IF SamePackage(candidates, context_package.parts) # NoClass
       THEN SamePackage(candidates, context_package.parts)
       ELSE LET best_candidate ==
                  BestCandidate(candidates, context_package.parts, NoClass, 0)
            IN IF best_candidate # NoClass THEN best_candidate
               ELSE candidates[1]

ResolveInit ==
  /\ pc = "tr_build"
  /\ cfg \in [simple_class_name : ClassNames,
              context_package : ContextPackages]
  /\ attempt = 0
  /\ stats = [type_mapping |-> [n \in ClassNames |-> NoClass],
              ambiguous_types |-> [n \in ClassNames |-> <<>>]]
  /\ result = NoClass
  /\ obs = <<>>
  /\ ComponentIdle

\* _build_type_mapping handing the next parsed file to
\* _add_class_to_mapping
AddClassToMapping ==
  /\ pc = "tr_build"
  /\ attempt < MaxFiles
  /\ \E class_info \in ClassInfos :
       /\ class_info.file = attempt + 1
       /\ LET class_name == class_info.name
              existing_class == stats.type_mapping[class_name]
          IN stats' =
               IF existing_class # NoClass
               THEN [stats EXCEPT !.ambiguous_types[class_name] =
                       IF @ = <<>> THEN <<existing_class, class_info>>
                       ELSE Append(@, class_info)]
               ELSE [stats EXCEPT !.type_mapping[class_name] = class_info]
       /\ obs' = Append(obs, class_info)
  /\ attempt' = attempt + 1
  /\ UNCHANGED <<pc, cfg, result>>
  /\ ComponentFrame

\* the mapping is built; resolve_type(simple_class_name, context_package)
ResolveType ==
  /\ pc = "tr_build"
  /\ result' =
       IF stats.type_mapping[cfg.simple_class_name] = NoClass THEN NoClass
       ELSE IF stats.ambiguous_types[cfg.simple_class_name] = <<>>
            THEN stats.type_mapping[cfg.simple_class_name]
            ELSE Best(stats.ambiguous_types[cfg.simple_class_name],
                      cfg.context_package)
  /\ pc' = "tr_done"
  /\ UNCHANGED <<cfg, attempt, stats, obs>>
  /\ ComponentFrame

ResolveNext ==
  \/ AddClassToMapping
  \/ ResolveType

ResolveSpec == ResolveInit /\ [][ResolveNext]_vars

\* the classes declared under the resolved name, in discovery order
Declared == SelectSeq(obs, LAMBDA c : c.name = cfg.simple_class_name)

\* the longest prefix a declared class shares with the context package
LongestPrefix ==
  LET n == {CommonPrefix(cfg.context_package.parts, Declared[i].package) :
              i \in 1..Len(Declared)}
  IN CHOOSE m \in n : \A k \in n : k <= m

HelperIn(parts) ==
  \E i \in 1..Len(Declared) :
     Declared[i].name = "Helper" /\ Declared[i].package = parts

\* C19: a name declared once resolves to that class; a name declared
\* several times resolves to a class of the context package if there is
\* one, else to a class sharing the longest non-empty package prefix with
\* the context package, else to the class discovered first; Helper
\* declared in a.b and a.c resolves to a.b under context a.b.target.
C19_ResolvesByPackage ==
  (pc = "tr_done" /\ Declared # <<>>) =>
    /\ Len(Declared) = 1 => result = Declared[1]
    /\ Len(Declared) > 1 =>
         IF /\ ~cfg.context_package.is_none
            /\ \E i \in 1..Len(Declared) :
                  Declared[i].package = cfg.context_package.parts
         THEN result.package = cfg.context_package.parts
         ELSE IF ~cfg.context_package.is_none /\ LongestPrefix > 0
              THEN CommonPrefix(cfg.context_package.parts, result.package)
                     = LongestPrefix
              ELSE result = Declared[1]
    /\ ( /\ cfg.simple_class_name = "Helper"
         /\ cfg.context_package.parts = <<"a", "b", "target">>
         /\ Len(Declared) = 2
         /\ HelperIn(<<"a", "b">>) /\ HelperIn(<<"a", "c">>) )
       => result.package = <<"a", "b">>

\* ====================================================================
\* JavaSignatureParser.extract_all_types_from_signature. A text is the
\* sequence of its tokens: a word (\w+), one of < > , ( ) . ? , the pair
\* "[]", or " " for a run of white space (the parser first collapses
\* white space to single blanks). cfg.signature is the signature,
\* stats.types the list `types`, result the list returned.
\* ====================================================================
MaxDepth == 2
MaxParams == 1

Punctuation == {"<", ">", ",", "(", ")", ".", "?", "[]", " "}

Leaves ==
  {<<"int">>, <<"Integer">>, <<"Foo">>, <<"int", "[]">>, <<"a", ".", "Foo">>}

ListOf(t) == <<"List", "<">> \o t \o <<">">>

MapOf(t) == <<"Map", "<", "String", ",", " ">> \o t \o <<">">>

\* the type texts of generic nesting depth at most d
RECURSIVE TypesUpTo(_)
TypesUpTo(d) ==
  IF d = 0 THEN Leaves
  ELSE LET inner == TypesUpTo(d - 1)
       IN Leaves \cup {ListOf(t) : t \in inner} \cup {MapOf(t) : t \in inner}

TypeTexts == TypesUpTo(MaxDepth)

\* "T1 x, T2 x" for the parameter types in ts
RECURSIVE ParameterList(_)
ParameterList(ts) ==
  IF ts = <<>> THEN <<>>
  ELSE Head(ts) \o <<" ", "x">> \o
       (IF Tail(ts) = <<>> THEN <<>> ELSE <<",", " ">> \o ParameterList(Tail(ts)))

\* "public R m(T1 x, T2 x)"
SignatureText(ret, ts) ==
  <<"public", " ">> \o ret \o <<" ", "m", "(">> \o ParameterList(ts) \o <<")">>

Signatures ==
  {SignatureText(ret, ts) :
     ret \in TypeTexts \cup {<<"void">>},
     ts \in UNION {[1..n -> TypeTexts] : n \in 0..MaxParams}}

\* str.strip()
RECURSIVE Strip(_)
Strip(t) ==
  IF t = <<>> THEN <<>>
  ELSE IF Head(t) = " " THEN Strip(Tail(t))
  ELSE IF t[Len(t)] = " " THEN Strip(SubSeq(t, 1, Len(t) - 1))
  ELSE t

\* the positions of token tok in t
Positions(t, tok) == {i \in 1..Len(t) : t[i] = tok}

Least(S) == CHOOSE m \in S : \A k \in S : m <= k

Greatest(S) == CHOOSE m \in S : \A k \in S : k <= m

\* the loops of _parse_parameters and _parse_generic_parameters: cut at
\* the commas met while angle_bracket_count is 0, keep the non-blank
\* pieces stripped (no parenthesis occurs inside a parameter list here)
RECURSIVE SplitAtCommas(_, _, _, _)
SplitAtCommas(t, current_param, angle_bracket_count, params) ==
  LET closed == IF Strip(current_param) # <<>>
                THEN Append(params, Strip(current_param)) ELSE params
  IN IF t = <<>> THEN closed
     ELSE IF Head(t) = "<"
          THEN SplitAtCommas(Tail(t), Append(current_param, "<"),
                             angle_bracket_count + 1, params)
     ELSE IF Head(t) = ">"
          THEN SplitAtCommas(Tail(t), Append(current_param, ">"),
                             angle_bracket_count - 1, params)
     ELSE IF Head(t) = "," /\ angle_bracket_count = 0
          THEN SplitAtCommas(Tail(t), <<>>, angle_bracket_count, closed)
     ELSE SplitAtCommas(Tail(t), Append(current_param, Head(t)),
                        angle_bracket_count, params)

ParseParameters(param_string) == SplitAtCommas(param_string, <<>>, 0, <<>>)

ParseGenericParameters(generic_params) ==
  SplitAtCommas(generic_params, <<>>, 0, <<>>)

\* re.sub(r'<.*>', '', t): greedy, from the first "<" to the last ">"
RemoveGenerics(t) ==
  LET opens == Positions(t, "<")
      closes == Positions(t, ">")
  IN IF opens = {} \/ closes = {} \/ Greatest(closes) < Least(opens) THEN t
     ELSE SubSeq(t, 1, Least(opens) - 1) \o
          SubSeq(t, Greatest(closes) + 1, Len(t))

\* the two wildcard substitutions: "? extends " / "? super ", then "?"
RECURSIVE RemoveWildcards(_)
RemoveWildcards(t) ==
  IF t = <<>> THEN <<>>
  ELSE IF Head(t) = "?"
       THEN LET rest == IF Len(t) >= 2 /\ t[2] = " " THEN Tail(Tail(t))
                        ELSE Tail(t)
            IN IF /\ Len(rest) >= 2
                  /\ rest[1] \in {"extends", "super"}
                  /\ rest[2] = " "
               THEN RemoveWildcards(Tail(Tail(rest)))
               ELSE RemoveWildcards(Tail(t))
       ELSE <<Head(t)>> \o RemoveWildcards(Tail(t))

\* type_name.split('.')[-1] when the name has a dot
AfterLastDot(t) ==
  IF Positions(t, ".") = {} THEN t
  ELSE SubSeq(t, Greatest(Positions(t, ".")) + 1, Len(t))

\* _clean_type_name
CleanTypeName(type_name) ==
  IF type_name = <<>> THEN <<>>
  ELSE LET no_arrays == SelectSeq(type_name, LAMBDA tok : tok # "[]")
       IN Strip(AfterLastDot(RemoveWildcards(RemoveGenerics(no_arrays))))

\* re.search(r'<([^>]+)>', t): the first "<" that has a ">" after it with
\* something in between; the text up to the first such ">" is the group
GenericGroup(t) ==
  LET starts == {a \in Positions(t, "<") :
                   /\ \E c \in Positions(t, ">") : c > a
                   /\ a + 1 \notin Positions(t, ">")}
  IN IF starts = {} THEN <<>>
     ELSE LET a == Least(starts)
              c == Least({c \in Positions(t, ">") : c > a})
          IN SubSeq(t, a + 1, c - 1)

\* _extract_nested_types; the loop over params is NestedOfParams
RECURSIVE ExtractNestedTypes(_)
RECURSIVE NestedOfParams(_)
ExtractNestedTypes(type_name) ==
  IF GenericGroup(type_name) = <<>> THEN <<>>
  ELSE NestedOfParams(ParseGenericParameters(GenericGroup(type_name)))

NestedOfParams(params) ==
  IF params = <<>> THEN <<>>
  ELSE (IF CleanTypeName(Head(params)) # <<>>
        THEN <<CleanTypeName(Head(params))>> \o ExtractNestedTypes(Head(params))
        ELSE <<>>)
       \o NestedOfParams(Tail(params))

\* the tail `(?:<[^>]*>)?(?:\[\])*` of the return-type group on t[a..e]
GroupTail(t, a, e) ==
  \/ \A j \in a..e : t[j] = "[]"
  \/ /\ a <= e
     /\ t[a] = "<"
     /\ \E c \in (a + 1)..e :
          /\ t[c] = ">"
          /\ \A j \in (a + 1)..(c - 1) : t[j] # ">"
          /\ \A j \in (c + 1)..e : t[j] = "[]"

\* the group `\S+(?:<[^>]*>)?(?:\[\])*` can be t[g..e]
GroupAt(t, g, e) ==
  \E k \in g..e :
     /\ \A j \in g..k : t[j] # " "
     /\ GroupTail(t, k + 1, e)

\* extract_return_type: the leftmost match of
\* (modifiers|\s)*\s*(\S+(?:<[^>]*>)?(?:\[\])*)\s+\w+\s*\( ; the group has to
\* end before the blank and the method name in front of "("; <<>> is None
ExtractReturnType(signature) ==
  LET parens == {i \in Positions(signature, "(") :
                   /\ i > 3
                   /\ signature[i - 1] \notin Punctuation
                   /\ signature[i - 2] = " "}
      matches == {m \in [g : 1..Len(signature), e : 1..Len(signature)] :
                    /\ m.e + 3 \in parens
                    /\ m.g <= m.e
                    /\ GroupAt(signature, m.g, m.e)}
  IN IF matches = {} THEN <<>>
     ELSE LET g == Least({m.g : m \in matches})
              e == Least({m.e : m \in {n \in matches : n.g = g}})
          IN SubSeq(signature, g, e)

\* _extract_type_from_parameter: the blank-separated parts but the last
\* (<<>> is None: fewer than two parts)
ExtractTypeFromParameter(parameter) ==
  LET p == Strip(parameter)
  IN IF Positions(p, " ") = {} THEN <<>>
     ELSE SubSeq(p, 1, Greatest(Positions(p, " ")) - 1)

RECURSIVE TypesOfParameters(_)
TypesOfParameters(parameters) ==
  IF parameters = <<>> THEN <<>>
  ELSE (IF ExtractTypeFromParameter(Head(parameters)) # <<>>
        THEN <<ExtractTypeFromParameter(Head(parameters))>> ELSE <<>>)
       \o TypesOfParameters(Tail(parameters))

\* extract_parameter_types: the text between the first "(" that has a
\* ")" after it with no ")" in between, split and reduced to the types
ExtractParameterTypes(signature) ==
  LET opens == {a \in Positions(signature, "(") :
                  \E c \in Positions(signature, ")") : c > a}
  IN IF opens = {} THEN <<>>
     ELSE LET a == Least(opens)
              c == Least({c \in Positions(signature, ")") : c > a})
          IN TypesOfParameters(ParseParameters(Strip(SubSeq(signature, a + 1, c - 1))))

\* the nested types of every entry of types, in order
RECURSIVE AllNestedTypes(_)
AllNestedTypes(types) ==
  IF types = <<>> THEN <<>>
  ELSE ExtractNestedTypes(Head(types)) \o AllNestedTypes(Tail(types))

primitive_types ==
  {"int", "long", "double", "float", "boolean", "char", "byte", "short",
   "void"}

\* a cleaned name is in the set when it is that one word
IsPrimitiveType(clean_type) ==
  Len(clean_type) = 1 /\ clean_type[1] \in primitive_types

ElementsOf(seq) == {seq[i] : i \in 1..Len(seq)}

\* the final loop: clean, drop empty, seen and primitive names
RECURSIVE UniqueTypes(_, _)
UniqueTypes(types, unique_types) ==
  IF types = <<>> THEN unique_types
  ELSE LET clean_type == CleanTypeName(Head(types))
       IN IF /\ clean_type # <<>>
             /\ clean_type \notin ElementsOf(unique_types)
             /\ ~IsPrimitiveType(clean_type)
          THEN UniqueTypes(Tail(types), Append(unique_types, clean_type))
          ELSE UniqueTypes(Tail(types), unique_types)

SignatureInit ==
  /\ pc = "sg_return"
  /\ cfg \in [signature : Signatures]
  /\ attempt = 0
  /\ stats = [types |-> <<>>]
  /\ result = <<>>
  /\ obs = <<>>
  /\ ComponentIdle

\* return_type = extract_return_type(signature), appended unless void
ReturnTypeStep ==
  /\ pc = "sg_return"
  /\ LET return_type == ExtractReturnType(cfg.signature)
     IN stats' = [types |-> IF return_type # <<>> /\ return_type # <<"void">>
                            THEN <<return_type>> ELSE <<>>]
  /\ pc' = "sg_params"
  /\ UNCHANGED <<cfg, attempt, result, obs>>
  /\ ComponentFrame

\* types.extend(extract_parameter_types(signature))
ParameterTypesStep ==
  /\ pc = "sg_params"
  /\ stats' = [types |-> stats.types \o ExtractParameterTypes(cfg.signature)]
  /\ pc' = "sg_nested"
  /\ UNCHANGED <<cfg, attempt, result, obs>>
  /\ ComponentFrame

\* types.extend(all_nested_types)
NestedTypesStep ==
  /\ pc = "sg_nested"
  /\ stats' = [types |-> stats.types \o AllNestedTypes(stats.types)]
  /\ pc' = "sg_unique"
  /\ UNCHANGED <<cfg, attempt, result, obs>>
  /\ ComponentFrame

\* the de-duplicating, filtering loop and the return
UniqueTypesStep ==
  /\ pc = "sg_unique"
  /\ result' = UniqueTypes(stats.types, <<>>)
  /\ pc' = "sg_done"
  /\ UNCHANGED <<cfg, attempt, stats, obs>>
  /\ ComponentFrame

SignatureNext ==
  \/ ReturnTypeStep
  \/ ParameterTypesStep
  \/ NestedTypesStep
  \/ UniqueTypesStep

SignatureSpec == SignatureInit /\ [][SignatureNext]_vars

\* java.lang's wrapper classes of the primitive types
BoxedTypes ==
  {"Integer", "Long", "Double", "Float", "Boolean", "Character", "Byte",
   "Short", "Void"}

\* C20: the returned list holds no primitive and no boxed type name and
\* no entry twice.
C20_NoPrimitiveNoDuplicate ==
  pc = "sg_done" =>
    /\ \A i \in 1..Len(result) :
          ~(Len(result[i]) = 1
              /\ result[i][1] \in primitive_types \cup BoxedTypes)
    /\ \A i, j \in 1..Len(result) : result[i] = result[j] => i = j

\* the class names a signature of Signatures can mention in a type
\* position, apart from String
MentionedTypes ==
  {w \in {"List", "Map", "Foo"} : Positions(cfg.signature, w) # {}}

\* C21: whatever the nesting depth, the returned list holds the container
\* and the argument types of every level of the signature's generics
\* (Map, List and Foo when they occur in it) and never holds String.
C21_NestedGenericsUnwrapped ==
  pc = "sg_done" =>
    /\ \A w \in MentionedTypes : <<w>> \in ElementsOf(result)
    /\ <<"String">> \notin ElementsOf(result)

\* ====================================================================
\* ImprovedTestGenerator._clean_llm_response and
\* _fix_incomplete_java_code. A text is the sequence of its tokens: the
\* characters < > { } " \ , a blank, a line break, and the words the
\* patterns look for, each taken whole: "think", "/think", "fence", "java",
\* "package a;" (a package declaration), "public class T" (a class
\* header), and other words; "fence" stands for three backticks. cfg.response is the raw text, result the
\* text after the calls made so far, obs the value of each call.
\* ====================================================================
MaxLen == 4
MaxBody == 3
MaxCalls == 2

WhiteSpace == {" ", "\n"}

SanitizerTokens ==
  {"<", ">", "think", "/think", "fence", "java", "package a;",
   "public class T", "{", "}", "\n", "\""}

TextsOver(tokens, n) == UNION {[1..k -> tokens] : k \in 0..n}

\* "<think>java</think>```java\npackage a;\npublic class T{}\n```java"
ScenarioD ==
  <<"<", "think", ">", "java", "<", "/think", ">", "fence", "java", "\n",
    "package a;", "\n", "public class T", "{", "}", "\n", "fence", "java">>

\* brace depth of a text, counting every brace
RECURSIVE Depth(_)
Depth(t) ==
  IF t = <<>> THEN 0
  ELSE (IF Head(t) = "{" THEN 1 ELSE IF Head(t) = "}" THEN -1 ELSE 0)
       + Depth(Tail(t))

Balanced(t) ==
  /\ Depth(t) = 0
  /\ \A i \in 1..Len(t) : Depth(SubSeq(t, 1, i)) >= 0

\* sources that begin with the package declaration and end with the
\* balanced body of a public class; the body may use generic types
CleanSources ==
  {<<"package a;", "\n", "public class T", "{">> \o body \o <<"}">> :
     body \in {b \in TextsOver({"List", "<", "String", ">", "{", "}", "\n", " "},
                               MaxBody) : Balanced(b)}}

RawOutputs == TextsOver(SanitizerTokens, MaxLen) \cup {ScenarioD}

IsTagAt(t, i, word) ==
  /\ i + 2 <= Len(t)
  /\ t[i] = "<" /\ t[i + 1] = word /\ t[i + 2] = ">"

\* re.sub(r'<think>.*?</think>', '', t, flags=re.DOTALL)
RECURSIVE RemoveThinkBlocks(_)
RemoveThinkBlocks(t) ==
  IF t = <<>> THEN <<>>
  ELSE IF IsTagAt(t, 1, "think")
          /\ \E c \in 4..Len(t) : IsTagAt(t, c, "/think")
       THEN LET c == Least({c \in 4..Len(t) : IsTagAt(t, c, "/think")})
            IN RemoveThinkBlocks(SubSeq(t, c + 3, Len(t)))
       ELSE <<Head(t)>> \o RemoveThinkBlocks(Tail(t))

\* re.sub(r'<[^>]+>', '', t)
RECURSIVE RemoveTags(_)
RemoveTags(t) ==
  IF t = <<>> THEN <<>>
  ELSE IF Head(t) = "<" /\ Len(t) >= 3 /\ t[2] # ">"
          /\ \E c \in 3..Len(t) : t[c] = ">"
       THEN RemoveTags(SubSeq(t, Least({c \in 3..Len(t) : t[c] = ">"}) + 1,
                              Len(t)))
       ELSE <<Head(t)>> \o RemoveTags(Tail(t))

RECURSIVE SkipWhiteSpace(_)
SkipWhiteSpace(t) ==
  IF t # <<>> /\ Head(t) \in WhiteSpace THEN SkipWhiteSpace(Tail(t)) ELSE t

\* re.sub(r'```java\s*', '', t)
RECURSIVE RemoveJavaFences(_)
RemoveJavaFences(t) ==
  IF t = <<>> THEN <<>>
  ELSE IF Len(t) >= 2 /\ t[1] = "fence" /\ t[2] = "java"
       THEN RemoveJavaFences(SkipWhiteSpace(Tail(Tail(t))))
       ELSE <<Head(t)>> \o RemoveJavaFences(Tail(t))

\* re.sub(r'```\s*$', '', t): only a fence with nothing but white space
\* between it and the end of the text
RemoveFinalFence(t) ==
  LET ends == {i \in Positions(t, "fence") :
                 \A j \in (i + 1)..Len(t) : t[j] \in WhiteSpace}
  IN IF ends = {} THEN t ELSE SubSeq(t, 1, Least(ends) - 1)

\* response[package_match.start():]
FromPackage(t) ==
  IF Positions(t, "package a;") = {} THEN t
  ELSE SubSeq(t, Least(Positions(t, "package a;")), Len(t))

\* r'public\s+class\s+\w+.*?\{.*\}' with DOTALL matches somewhere
HasClassMatch(t) ==
  \E i, j, k \in 1..Len(t) :
     /\ i < j /\ j < k
     /\ t[i] = "public class T" /\ t[j] = "{" /\ t[k] = "}"

\* the state of the scan after the characters of one line
RECURSIVE ScanLine(_, _)
ScanLine(line, st) ==
  IF line = <<>> THEN st
  ELSE IF st.escape_next
       THEN ScanLine(Tail(line), [st EXCEPT !.escape_next = FALSE])
  ELSE IF Head(line) = "\\"
       THEN ScanLine(Tail(line), [st EXCEPT !.escape_next = TRUE])
  ELSE LET in_string == IF Head(line) = "\"" THEN ~st.in_string
                        ELSE st.in_string
           step == IF in_string THEN 0
                   ELSE IF Head(line) = "{" THEN 1
                   ELSE IF Head(line) = "}" THEN -1 ELSE 0
       IN ScanLine(Tail(line),
                   [st EXCEPT !.in_string = in_string,
                              !.brace_count = @ + step])

\* code.split('\n')
RECURSIVE SplitLines(_)
SplitLines(code) ==
  IF Positions(code, "\n") = {} THEN <<code>>
  ELSE LET n == Least(Positions(code, "\n"))
       IN <<SubSeq(code, 1, n - 1)>> \o SplitLines(SubSeq(code, n + 1, Len(code)))

\* '\n'.join(lines)
RECURSIVE JoinLines(_)
JoinLines(lines) ==
  IF lines = <<>> THEN <<>>
  ELSE IF Len(lines) = 1 THEN lines[1]
  ELSE lines[1] \o <<"\n">> \o JoinLines(Tail(lines))

\* line.rstrip()
RECURSIVE RStrip(_)
RStrip(line) ==
  IF line # <<>> /\ line[Len(line)] \in WhiteSpace
  THEN RStrip(SubSeq(line, 1, Len(line) - 1)) ELSE line

EndsWithQuote(line) ==
  RStrip(line) # <<>> /\ RStrip(line)[Len(RStrip(line))] = "\""

\* the loop over the lines: the fixed lines and the final scan state
RECURSIVE FixLines(_, _, _)
FixLines(lines, st, fixed_lines) ==
  IF lines = <<>> THEN [fixed_lines |-> fixed_lines, st |-> st]
  ELSE LET after == ScanLine(Head(lines), st)
       IN IF after.in_string /\ ~EndsWithQuote(Head(lines))
          THEN FixLines(Tail(lines), [after EXCEPT !.in_string = FALSE],
                        Append(fixed_lines, Append(RStrip(Head(lines)), "\"")))
          ELSE FixLines(Tail(lines), after, Append(fixed_lines, Head(lines)))

RECURSIVE ClosingBraces(_)
ClosingBraces(brace_count) ==
  IF brace_count > 0 THEN <<(<<"}">>)>> \o ClosingBraces(brace_count - 1)
  ELSE <<>>

ScanStart == [brace_count |-> 0, in_string |-> FALSE, escape_next |-> FALSE]

\* _fix_incomplete_java_code
FixIncompleteJavaCode(code) ==
  LET fixed == FixLines(SplitLines(code), ScanStart, <<>>)
  IN JoinLines(fixed.fixed_lines \o ClosingBraces(fixed.st.brace_count))

ToLastClassEnd_exclusive(t) == SubSeq(t, 1, Greatest(Positions(t, "}")) - 1)

\* response[:last_match.end()]: the match runs to the last "}"
ToLastClassEnd(t) == SubSeq(t, 1, Greatest(Positions(t, "}")))

\* response.strip()
RECURSIVE StripText(_)
StripText(t) ==
  IF t # <<>> /\ Head(t) \in WhiteSpace THEN StripText(Tail(t))
  ELSE RStrip(t)

\* _clean_llm_response
CleanLLMResponse(response) ==
  LET untagged == RemoveTags(RemoveThinkBlocks(response))
      unfenced == RemoveFinalFence(RemoveJavaFences(untagged))
      from_package == FromPackage(unfenced)
  IN StripText(IF HasClassMatch(from_package)
              THEN ToLastClassEnd(from_package)
              ELSE FixIncompleteJavaCode(from_package))

SanitizeInit ==
  /\ pc = "cl_ready"
  /\ cfg \in [response : RawOutputs \cup CleanSources]
  /\ attempt = 0
  /\ stats = Stats0
  /\ result = cfg.response
  /\ obs = <<>>
  /\ ComponentIdle

\* one call of _clean_llm_response, on the raw text and then on what the
\* call before returned
CleanResponse ==
  /\ pc = "cl_ready"
  /\ attempt < MaxCalls
  /\ result' = CleanLLMResponse(result)
  /\ obs' = Append(obs, result')
  /\ attempt' = attempt + 1
  /\ UNCHANGED <<pc, cfg, stats>>
  /\ ComponentFrame

SanitizeNext == CleanResponse

SanitizeSpec == SanitizeInit /\ [][SanitizeNext]_vars

HasThinkTag(t) == \E i \in 1..Len(t) : IsTagAt(t, i, "think")

HasFence(t) == Positions(t, "fence") # {}

\* C22: whatever the raw text, the sanitized text holds neither "<think>"
\* nor three backticks.
C22_NoThinkNoFence ==
  attempt >= 1 => ~HasThinkTag(obs[1]) /\ ~HasFence(obs[1])

MaxChars == 4

RepairTokens == {"{", "}", "\"", "\\", "\n", " ", "w"}

RepairInit ==
  /\ pc = "rp_call"
  /\ cfg \in [code : TextsOver(RepairTokens, MaxChars)]
  /\ attempt = 0
  /\ stats = Stats0
  /\ result = <<>>
  /\ obs = <<>>
  /\ ComponentIdle

RepairCode ==
  /\ pc = "rp_call"
  /\ result' = FixIncompleteJavaCode(cfg.code)
  /\ pc' = "rp_done"
  /\ UNCHANGED <<cfg, attempt, stats, obs>>
  /\ ComponentFrame

RepairNext == RepairCode

RepairSpec == RepairInit /\ [][RepairNext]_vars

\* the scan states at the end of each line of a text, by the rules of
\* the repair pass
RECURSIVE LineEnds(_, _)
LineEnds(lines, st) ==
  IF lines = <<>> THEN <<>>
  ELSE <<ScanLine(Head(lines), st)>>
       \o LineEnds(Tail(lines), ScanLine(Head(lines), st))

\* C30: scanned again by the same rules, the repaired text ends at brace
\* depth zero and none of its lines ends inside a string literal.
C30_RepairBalances ==
  pc = "rp_done" =>
    LET ends == LineEnds(SplitLines(result), ScanStart)
    IN /\ ends[Len(ends)].brace_count = 0
       /\ \A i \in 1..Len(ends) : ~ends[i].in_string

\* ====================================================================
\* Properties of the generation-repair loop, continued
\* ====================================================================
\* the latest call of the session was a fix request that produced a
\* candidate, which no compiler has seen yet
FixedUncompiled == obs.lastCall = "fix_ok"

\* C24: the candidate of a fix response is compiled before anything else
\* happens: no session returns, and no further fix request or test run is
\* made, while the latest fix response's candidate is uncompiled.
C24_FixedCandidateCompiledNext ==
  /\ [](Returned => ~FixedUncompiled)
  /\ [][FixedUncompiled => /\ calls'.cfix = calls.cfix
                           /\ calls'.rfix = calls.rfix
                           /\ calls'.run = calls.run]_vars

\* the runtime phase is about to start: its frame is set, nothing counted
RuntimePhaseStarts ==
  /\ Improved
  /\ pc = "rphase_head"
  /\ ph.kind = "runtime"
  /\ ph.attempt = 0

\* C25: the runtime phase of a `both` or `runtime-only` session starts
\* with the latest candidate of the session, the one the last compile-fix
\* response produced when there was one, whether the compile phase
\* succeeded or ran into its bound.
C25_RuntimeStartsWithLatestCandidate ==
  RuntimePhaseStarts => ph.current_code = obs.candidate


\* C26: every generate-test request is finalized before it returns,
\* whatever its outcome: the session record of generate_test_for_method
\* has been persisted by _save_complete_session, and no conversation that
\* generate_and_fix_test started is left active in the ConversationLogger.
C26_RequestFinalized ==
  pc = "done" =>
    /\ Improved => session_saved
    /\ ~conv_active


\* ====================================================================
\* ImprovedCompilationManager: compile_test and cleanup on one manager
\* ====================================================================
MaxCompiles == 3

TestClassNames == {"ATest", "BTest"}

\* a candidate is a test source: the class name _extract_test_class_name
\* finds in it, and whether it compiles against the project's own sources
Candidates == [name : TestClassNames, compiles : BOOLEAN]

NoFile == [name |-> "", compiles |-> TRUE]

\* __init__: no temporary directory; the project's src/test/java holds
\* nothing written by the manager
Disk0 == [temp_dir |-> 0, dirs |-> {},
          test_java |-> [n \in TestClassNames |-> NoFile]]

CompileInit ==
  /\ pc = "cm_ready"
  /\ cfg \in [is_maven_project : BOOLEAN]
  /\ attempt = 0
  /\ stats = Stats0
  /\ result = <<>>
  /\ obs = Disk0
  /\ ComponentIdle

\* _compile_with_maven: the candidate is written to src/test/java under
\* its class name and `mvn test-compile` compiles every source there
CompileWithMaven(disk, c, run) ==
  LET copied == [disk.test_java EXCEPT ![c.name] = c]
  IN [disk |-> [disk EXCEPT !.test_java = copied],
      success |-> /\ run = "ran"
                  /\ \A n \in TestClassNames : copied[n].compiles]

\* _compile_with_javac: javac is given the one file of the new directory
CompileWithJavac(disk, c, run) ==
  [disk |-> disk, success |-> run = "ran" /\ c.compiles]

\* compile_test: a new directory from mkdtemp replaces self.temp_dir and
\* receives the candidate; then the build of the project kind runs
CompileTest ==
  /\ attempt < MaxCompiles
  /\ \E c \in Candidates, run \in {"ran", "timeout"} :
       LET dir == attempt + 1
           made == [obs EXCEPT !.temp_dir = dir, !.dirs = @ \cup {dir}]
           out == IF cfg.is_maven_project
                    THEN CompileWithMaven(made, c, run)
                    ELSE CompileWithJavac(made, c, run)
       IN /\ obs' = out.disk
          /\ result' = [candidate |-> c, run |-> run, success |-> out.success]
  /\ attempt' = attempt + 1
  /\ pc' = "cm_compiled"
  /\ UNCHANGED <<cfg, stats>>
  /\ ComponentFrame

\* cleanup: rmtree of self.temp_dir when it is set and exists
Cleanup ==
  /\ pc' = "cm_clean"
  /\ obs' = IF obs.temp_dir # 0 /\ obs.temp_dir \in obs.dirs
              THEN [obs EXCEPT !.dirs = @ \ {obs.temp_dir}]
              ELSE obs
  /\ UNCHANGED <<cfg, attempt, stats, result>>
  /\ ComponentFrame

CompileNext == CompileTest \/ Cleanup

CompileSpec == CompileInit /\ [][CompileNext]_vars

\* C27: a compilation that ran to its end succeeds exactly when its own
\* candidate compiles against the project, whatever earlier calls wrote;
\* and after cleanup() no directory made by compile_test and no test
\* source written by it is left on disk.
C27_SessionsIndependent ==
  /\ (pc = "cm_compiled" /\ result.run = "ran")
       => result.success = result.candidate.compiles
  /\ pc = "cm_clean"
       => /\ obs.dirs = {}
          /\ \A n \in TestClassNames : obs.test_java[n] = NoFile


\* ====================================================================
\* Several generate_and_fix_test calls on one SmartFixLoop instance
\* ====================================================================
MaxSessions == 2

\* the next call on the same instance: the locals of the call start
\* afresh, the attributes set by __init__ (the two bounds, fix_history)
\* are what the earlier calls left
SmartNextSession ==
  /\ pc = "s_done"
  /\ attempt + 1 < MaxSessions
  /\ attempt' = attempt + 1
  /\ pc' = "s_idle"
  /\ ph' = NoFrame
  /\ result' = NoDict
  /\ calls' = Calls0
  /\ obs' = Obs0
  /\ UNCHANGED <<cfg, context_info, actual_mode_used, current_code,
                 phase_result, raised, stats, session_saved, fix_history,
                 conv_active>>

SmartSessionsNext == SmartNext \/ SmartNextSession

SmartSessionsSpec == SmartInit /\ [][SmartSessionsNext]_vars

MaxScans == 2

ProjectClasses == {"p.A", "q.B"}

MethodNames == {"m", "n"}

FieldNames == {"f"}

\* what one scan finds in the file of a class
ClassScans == [methods : SUBSET MethodNames, fields : SUBSET FieldNames]

ProjectContents == [ProjectClasses -> ClassScans]

\* a table is the bag of its rows, the autoincrement id left out
DeleteWhereClass(table, fqn) ==
  [r \in {x \in DOMAIN table : x.class_fqn # fqn} |-> table[r]]

InsertRows(table, rows) ==
  [r \in DOMAIN table \cup rows |->
     (IF r \in DOMAIN table THEN table[r] ELSE 0) + (IF r \in rows THEN 1 ELSE 0)]

\* INSERT OR REPLACE INTO class_index: fully_qualified_name is UNIQUE, the
\* row in conflict is deleted before the new one is inserted
insert_class(db, fqn) ==
  [db EXCEPT !.class_index =
     InsertRows([r \in {x \in DOMAIN @ : x.fully_qualified_name # fqn} |-> @[r]],
                {[fully_qualified_name |-> fqn]})]

\* INSERT OR REPLACE INTO methods: the only key of the table is its
\* autoincrement id, which the statement does not give, so no row is ever
\* in conflict and the row is added
insert_method(db, fqn, name) ==
  [db EXCEPT !.methods = InsertRows(@, {[class_fqn |-> fqn, name |-> name]})]

\* insert_class_index: replace the class row, delete the member rows of
\* the class, insert the members of this scan
insert_class_index(db, fqn, scan) ==
  LET replaced == insert_class(db, fqn)
  IN [replaced EXCEPT
        !.methods = InsertRows(DeleteWhereClass(@, fqn),
                      {[class_fqn |-> fqn, name |-> n] : n \in scan.methods}),
        !.fields = InsertRows(DeleteWhereClass(@, fqn),
                      {[class_fqn |-> fqn, name |-> n] : n \in scan.fields})]

RECURSIVE InsertMethods(_, _, _)
InsertMethods(db, fqn, names) ==
  IF names = {} THEN db
  ELSE LET n == CHOOSE x \in names : TRUE
       IN InsertMethods(insert_method(db, fqn, n), fqn, names \ {n})

\* the loop of analyze_project over the files, every file processed
RECURSIVE IndexAll(_, _, _)
IndexAll(db, classes, content) ==
  IF classes = {} THEN db
  ELSE LET c == CHOOSE x \in classes : TRUE
       IN IndexAll(insert_class_index(db, c, content[c]), classes \ {c}, content)

\* the loop of analyze_project_structure_only over the files
RECURSIVE IndexStructureOnly(_, _, _)
IndexStructureOnly(db, classes, content) ==
  IF classes = {} THEN db
  ELSE LET c == CHOOSE x \in classes : TRUE
       IN IndexStructureOnly(
            InsertMethods(insert_class(db, c), c, content[c].methods),
            classes \ {c}, content)

\* _init_database on a new file: the tables exist and are empty
IndexInit ==
  /\ pc = "ix_empty"
  /\ cfg = <<>>
  /\ attempt = 0
  /\ stats = Stats0
  /\ result = [class_index |-> <<>>, methods |-> <<>>, fields |-> <<>>]
  /\ obs = <<>>
  /\ ComponentIdle

\* analyze_project(force_reindex=True) on the sources as they are now;
\* obs keeps what this latest scan found
AnalyzeProject ==
  /\ attempt < MaxScans
  /\ \E content \in ProjectContents :
       /\ result' = IndexAll(result, ProjectClasses, content)
       /\ obs' = content
  /\ attempt' = attempt + 1
  /\ pc' = "ix_scanned"
  /\ UNCHANGED <<cfg, stats>>
  /\ ComponentFrame

\* analyze_project_structure_only on the sources as they are now; this
\* scan looks for classes and methods only, so it finds no field
AnalyzeProjectStructureOnly ==
  /\ attempt < MaxScans
  /\ \E content \in ProjectContents :
       /\ result' = IndexStructureOnly(result, ProjectClasses, content)
       /\ obs' = [c \in ProjectClasses |->
                   [methods |-> content[c].methods, fields |-> {}]]
  /\ attempt' = attempt + 1
  /\ pc' = "ix_scanned"
  /\ UNCHANGED <<cfg, stats>>
  /\ ComponentFrame

IndexNext == AnalyzeProject \/ AnalyzeProjectStructureOnly

IndexSpec == IndexInit /\ [][IndexNext]_vars

\* number of rows of a table equal to row
RowCount(table, row) == IF row \in DOMAIN table THEN table[row] ELSE 0

\* C29: after any sequence of scans the index holds exactly one class row
\* per fully-qualified name, and the method and field rows of a class are
\* exactly the members found by the most recent scan, each once.
C29_ReplaceOnReindex ==
  pc = "ix_scanned" =>
    \A c \in ProjectClasses :
      /\ RowCount(result.class_index, [fully_qualified_name |-> c]) = 1
      /\ \A n \in MethodNames :
           RowCount(result.methods, [class_fqn |-> c, name |-> n])
             = IF n \in obs[c].methods THEN 1 ELSE 0
      /\ \A n \in FieldNames :
           RowCount(result.fields, [class_fqn |-> c, name |-> n])
             = IF n \in obs[c].fields THEN 1 ELSE 0

=============================================================================
